---- MODULE Spec2Model ----
(***************************************************************************)
(* DreamCom (deamcompan): the provider registry (ProviderManager /         *)
(* ProvidersConfig), the multi-provider dispatcher (MultiClient), the      *)
(* meeting engine (MeetingEngine) with its two phases (AsyncPrepPhase,     *)
(* SyncDecisionPhase) and the parser of the facilitator's synthesis.       *)
(*                                                                         *)
(* Five specifications share the variables below:                          *)
(*   SpecRegistry  the registry under add/remove/enable/disable,           *)
(*   Spec          one MultiClient call (complete, stream or               *)
(*                 test_provider) against a registry and settings,         *)
(*   SpecPrep      one AsyncPrepPhase.run over a participant list,         *)
(*   SpecMeeting   one meeting created and one run_meeting call,           *)
(*   SpecParser    one _extract_decisions_and_actions call on a text.      *)
(***************************************************************************)
EXTENDS Integers, Sequences, FiniteSets, TLC

\* ---------------------------------------------------------------- bounds
\* The registry is mutated with MaxProviders distinct provider ids.
MaxProviders == 3
\* The registries a MultiClient call is started on hold at most this many.
MaxCallProviders == 2
\* settings.max_retries ranges over 0..MaxRetries.
MaxRetries == 4
\* A provider stream yields at most this many chunks.
MaxChunks == 2
\* A meeting has at most this many participants.
MaxParticipants == 3
\* A synthesis line is a prefix followed by at most this many pieces.
MaxBody == 5
\* A synthesis text of several lines has at most this many.
MaxLines == 2

\* "p1" stands for the default configuration's "kimi-proxypal".
ProviderId(i) == "p" \o ToString(i)
ProviderIds == {ProviderId(i) : i \in 1..MaxProviders}
Names == {"Kimi via ProxyPal", "Backup"}
Priorities == {1, 2, 3}
CallPriorities == {1, 2}
RetryDelays == {1, 3}
\* Python's None, and the bool a registry mutation returns.
None == "None"
True == "True"
False == "False"

VARIABLES
    providers,    \* ProviderManager._config.providers: list of ProviderConfig
    saved,        \* the provider list last written to config_path
    result,       \* return value of the last registry mutation
    settings,     \* ProviderManager._config.settings
    pc,           \* MultiClient call: position of the coroutine
    op,           \* MultiClient call: "complete", "stream" or "test"
    specific,     \* MultiClient call: the specific_provider / provider_id argument
    candidates,   \* complete/stream: the local list `providers`
    pidx,         \* complete/stream: index of the loop over `providers`
    attempt,      \* complete: the loop variable `attempt`
    errors,       \* complete/stream: the local dict `errors`
    log,          \* history: transport attempts, sleeps and chunks of the call
    outcome,      \* MultiClient call: what the call returned or raised
    participants, \* MeetingContext.participants
    prep_idx,     \* AsyncPrepPhase.run: index of the loop over participants
    prep_pc,      \* AsyncPrepPhase.run: position of the coroutine
    prep_results, \* AsyncPrepPhase.prep_results
    thoughts,     \* BaseAgent.thoughts of every agent
    prep_log,     \* history: the think() calls of the phase and their outcomes
    active_meetings,    \* MeetingEngine.active_meetings: id -> MeetingContext
    store,              \* ArtifactStore: <<artifact type, id>> -> artifact
    saves,              \* history: the keys of the ArtifactStore.save calls
    run_pc,             \* run_meeting: position of the coroutine
    run_id,             \* run_meeting: the meeting_id argument
    run_result,         \* run_meeting: what the call returned or raised
    round_num,          \* SyncDecisionPhase.run: the loop variable round_num
    turn_idx,           \* SyncDecisionPhase.run: index of the loop over participants
    discussion_context, \* SyncDecisionPhase.run: the local discussion_context
    discussion_log,     \* SyncDecisionPhase.discussion_log
    decisions,          \* SyncDecisionPhase.decisions
    action_items,       \* SyncDecisionPhase.action_items
    synthesis,          \* the text given to _extract_decisions_and_actions
    turn_log,           \* history: the think() calls of the decision phase
    phase_trace,        \* history: the <<status, current_phase>> the run has set
    lists,              \* the list objects of the callers: reference -> items
    contexts,           \* the MeetingContext objects, in the order of creation
    runs,               \* the run_meeting coroutines of the concurrent callers
    create_log,         \* history: the create_meeting calls
    prompt_log,         \* history: the agenda in each prompt of a run
    write_log,          \* history: the writes of status and current_phase
    finished,           \* history: the run_meeting calls that have ended
    uuid_count          \* the ids the parser has drawn from uuid4 so far

regVars == <<providers, saved, result>>
callVars == <<pc, op, specific, candidates, pidx, attempt, errors, log, outcome>>
prepVars == <<participants, prep_idx, prep_pc, prep_results, thoughts, prep_log>>
engineVars == <<active_meetings, store, saves, run_pc, run_id, run_result, phase_trace>>
syncVars == <<round_num, turn_idx, discussion_context, discussion_log, decisions,
              action_items, synthesis, turn_log>>
meetVars == <<engineVars, syncVars>>
callerVars == <<lists, contexts, runs, create_log, prompt_log, write_log>>
rerunVars == <<finished, uuid_count>>
vars == <<providers, saved, result, settings, pc, op, specific, candidates, pidx,
          attempt, errors, log, outcome, participants, prep_idx, prep_pc,
          prep_results, thoughts, prep_log, active_meetings, store, saves,
          run_pc, run_id, run_result, round_num, turn_idx, discussion_context,
          discussion_log, decisions, action_items, synthesis, turn_log,
          phase_trace, lists, contexts, runs, create_log, prompt_log, write_log,
          finished, uuid_count>>

\* ------------------------------------------------------- ProvidersConfig

ProviderConfig(i, n, pr, en) == [id |-> i, name |-> n, priority |-> pr, enabled |-> en]

MultiProviderSettings(sw, mr, rd) == [auto_switch |-> sw, max_retries |-> mr, retry_delay |-> rd]

\* An unstable placement: before the elements of equal key.
InsertByPriority_unstable(s, p) ==
    LET k == Cardinality({j \in 1..Len(s) : s[j].priority < p.priority})
    IN  SubSeq(s, 1, k) \o <<p>> \o SubSeq(s, k + 1, Len(s))

\* sorted(..., key=priority) is stable: an element goes after every element
\* already placed whose key is not larger.
InsertByPriority(s, p) ==
    LET k == Cardinality({j \in 1..Len(s) : s[j].priority <= p.priority})
    IN  SubSeq(s, 1, k) \o <<p>> \o SubSeq(s, k + 1, Len(s))

RECURSIVE SortedByPriority(_)
SortedByPriority(s) ==
    IF s = <<>> THEN <<>>
    ELSE InsertByPriority(SortedByPriority(SubSeq(s, 1, Len(s) - 1)), s[Len(s)])

\* The filter on enabled left out.
IsEnabled_any(p) == TRUE

IsEnabled(p) == p.enabled

get_enabled_providers(ps) == SortedByPriority(SelectSeq(ps, IsEnabled))

get_provider(ps, provider_id) ==
    IF \E j \in 1..Len(ps) : ps[j].id = provider_id
    THEN ps[CHOOSE j \in 1..Len(ps) :
                /\ ps[j].id = provider_id
                /\ \A k \in 1..(j - 1) : ps[k].id # provider_id]
    ELSE None

HasId(ps, provider_id) == \E j \in 1..Len(ps) : ps[j].id = provider_id

\* ------------------------------------------------------- ProviderManager

_create_default_config == <<ProviderConfig("p1", "Kimi via ProxyPal", 1, TRUE)>>

DefaultSettings == MultiProviderSettings(TRUE, 3, 1)

\* Every entry of the id kept.
WithoutId_keep(ps, provider_id) == ps

WithoutId(ps, provider_id) ==
    LET Keep(p) == p.id # provider_id IN SelectSeq(ps, Keep)

\* The flag of the first match inverted, whatever the flag asked for.
SetEnabled_toggle(ps, provider_id, flag) ==
    LET first == CHOOSE j \in 1..Len(ps) :
                    /\ ps[j].id = provider_id
                    /\ \A k \in 1..(j - 1) : ps[k].id # provider_id
    IN  [ps EXCEPT ![first].enabled = ~@]

\* The loop of enable_provider/disable_provider returns at the first match.
SetEnabled(ps, provider_id, flag) ==
    LET first == CHOOSE j \in 1..Len(ps) :
                    /\ ps[j].id = provider_id
                    /\ \A k \in 1..(j - 1) : ps[k].id # provider_id
    IN  [ps EXCEPT ![first].enabled = flag]

\* Lines 81-82: the entries of the same id dropped, the provider appended.
WithProvider(ps, provider) == Append(WithoutId(ps, provider.id), provider)

\* Lines 98-100, 108-110: the flag of the first entry of the id, if any.
WithEnabled(ps, provider_id, flag) ==
    IF HasId(ps, provider_id) THEN SetEnabled(ps, provider_id, flag) ELSE ps

\* Only the enabled providers written.
save_config_enabled_only(config) == SelectSeq(config, IsEnabled)

\* json.dump(self._config.model_dump(), f): what the file holds afterwards.
save_config(config) == config

add_provider(provider) ==
    /\ providers' = WithProvider(providers, provider)
    /\ saved' = save_config(providers')
    /\ result' = None
    /\ UNCHANGED <<settings, rerunVars, callerVars, callVars, prepVars, meetVars>>

remove_provider(provider_id) ==
    /\ providers' = WithoutId(providers, provider_id)
    /\ IF Len(providers') < Len(providers)
       THEN saved' = save_config(providers') /\ result' = True
       ELSE saved' = saved /\ result' = False
    /\ UNCHANGED <<settings, rerunVars, callerVars, callVars, prepVars, meetVars>>

enable_provider(provider_id) ==
    /\ providers' = WithEnabled(providers, provider_id, TRUE)
    /\ IF HasId(providers, provider_id)
       THEN saved' = save_config(providers') /\ result' = True
       ELSE saved' = saved /\ result' = False
    /\ UNCHANGED <<settings, rerunVars, callerVars, callVars, prepVars, meetVars>>

disable_provider(provider_id) ==
    /\ providers' = WithEnabled(providers, provider_id, FALSE)
    /\ IF HasId(providers, provider_id)
       THEN saved' = save_config(providers') /\ result' = True
       ELSE saved' = saved /\ result' = False
    /\ UNCHANGED <<settings, rerunVars, callerVars, callVars, prepVars, meetVars>>

\* ------------------------------------------------------ idle components

NoOutcome == [kind |-> "none"]

CallIdle ==
    /\ pc = "idle"
    /\ op = None
    /\ specific = None
    /\ candidates = <<>>
    /\ pidx = 0
    /\ attempt = 0
    /\ errors = <<>>
    /\ log = <<>>
    /\ outcome = NoOutcome

PrepIdle ==
    /\ participants = <<>>
    /\ prep_idx = 0
    /\ prep_pc = "idle"
    /\ prep_results = <<>>
    /\ thoughts = <<>>
    /\ prep_log = <<>>

CallersIdle ==
    /\ lists = <<>>
    /\ contexts = <<>>
    /\ runs = <<>>
    /\ create_log = <<>>
    /\ prompt_log = {}
    /\ write_log = {}

RerunIdle ==
    /\ finished = <<>>
    /\ uuid_count = 0

MeetIdle ==
    /\ active_meetings = <<>>
    /\ store = <<>>
    /\ saves = <<>>
    /\ run_pc = "idle"
    /\ run_id = None
    /\ run_result = NoOutcome
    /\ round_num = 0
    /\ turn_idx = 0
    /\ discussion_context = <<>>
    /\ discussion_log = <<>>
    /\ decisions = <<>>
    /\ action_items = <<>>
    /\ synthesis = <<>>
    /\ turn_log = <<>>
    /\ phase_trace = <<>>

\* -------------------------------------------------------- SpecRegistry
\* load_config on a missing file: the default configuration, saved at once.

InitRegistry ==
    /\ providers = _create_default_config
    /\ saved = providers
    /\ result = None
    /\ settings = DefaultSettings
    /\ CallIdle
    /\ PrepIdle
    /\ MeetIdle
    /\ RerunIdle
    /\ CallersIdle

\* No registry operation reads the display name: each id is added under one.
DisplayName(i) == IF i = "p1" THEN "Kimi via ProxyPal" ELSE "Backup"

AddProvider ==
    \E i \in ProviderIds, pr \in Priorities, en \in BOOLEAN :
        add_provider(ProviderConfig(i, DisplayName(i), pr, en))

RemoveProvider == \E i \in ProviderIds : remove_provider(i)

EnableProvider == \E i \in ProviderIds : enable_provider(i)

DisableProvider == \E i \in ProviderIds : disable_provider(i)

NextRegistry ==
    \/ AddProvider
    \/ RemoveProvider
    \/ EnableProvider
    \/ DisableProvider

SpecRegistry == InitRegistry /\ [][NextRegistry]_vars

\* ----------------------------------------------------------- MultiClient
\* str(e) of the exception a transport attempt raises. The text is opaque to
\* the dispatcher; each failure gets the identity of the attempt that raised
\* it, the finest labelling any transport can produce.
ErrorText(provider_id, n) == "error-" \o provider_id \o "-" \o ToString(n)

Contents == {"Test successful", "something else"}

LLMResponse(provider_id, content) == [by |-> provider_id, content |-> content]

MultiClientError(errs) == [kind |-> "MultiClientError", errors |-> errs]

NoProvidersAvailable == MultiClientError("all" :> "No providers available")

Returned(value) == [kind |-> "return", value |-> value]

Event(ev, provider_id, n, ok) == [ev |-> ev, id |-> provider_id, n |-> n, ok |-> ok]

\* errors[name] = msg on a dict.
DictSet(d, key, value) == [k \in DOMAIN d \cup {key} |-> IF k = key THEN value ELSE d[k]]

RECURSIVE Pow2(_)
Pow2(n) == IF n <= 0 THEN 1 ELSE 2 * Pow2(n - 1)

\* A linear backoff in place of the exponential one.
wait_time_linear(n) == settings.retry_delay * (n + 1)

\* wait_time = settings.retry_delay * (2 ** attempt)
wait_time(n) == settings.retry_delay * Pow2(n)

\* An unknown specific_provider falling back to the enabled providers.
ResolveCandidates_fallback(specific_provider) ==
    IF specific_provider # None /\ HasId(providers, specific_provider)
    THEN <<get_provider(providers, specific_provider)>>
    ELSE get_enabled_providers(providers)

\* A specific provider taken only when it is enabled.
ResolveCandidates_enabled(specific_provider) ==
    IF specific_provider # None
    THEN SelectSeq(get_enabled_providers(providers), LAMBDA p : p.id = specific_provider)
    ELSE get_enabled_providers(providers)

\* Lines 78-82 (and 129-133): the candidate list of complete and stream.
\* Provider ids are non-empty strings, so `if specific_provider:` is the test
\* against None.
ResolveCandidates(specific_provider) ==
    IF specific_provider # None
    THEN LET p == get_provider(providers, specific_provider)
         IN  IF HasId(providers, specific_provider) THEN <<p>> ELSE <<>>
    ELSE get_enabled_providers(providers)

\* A sleep after the last attempt as well.
MoreAttempts_after_last == attempt < settings.max_retries

\* Line 103: another attempt on the same provider follows, after a sleep.
MoreAttempts == attempt < settings.max_retries - 1

\* The provider loop never going on: a break that ignores auto_switch.
SwitchToNext_never == FALSE

\* The provider loop going on exactly when auto_switch is off.
SwitchToNext_inverted == ~settings.auto_switch /\ pidx < Len(candidates)

\* The provider loop always going on: the auto_switch test left out.
SwitchToNext_always == pidx < Len(candidates)

\* The next candidate looked up again in the registry before the loop goes on.
SwitchToNext_revalidated ==
    /\ settings.auto_switch
    /\ pidx < Len(candidates)
    /\ HasId(providers, candidates[pidx + 1].id)
    /\ get_provider(providers, candidates[pidx + 1].id).enabled

\* Lines 89 and 108-109 (140 and 148-149): the provider loop goes on to the
\* next candidate unless auto_switch is off or the list is exhausted.
SwitchToNext == settings.auto_switch /\ pidx < Len(candidates)

\* At least one attempt made whatever max_retries is.
RangeEmpty_never == FALSE

\* for attempt in range(settings.max_retries): no iteration at all.
RangeEmpty == settings.max_retries <= 0

\* complete up to its first await: candidate resolution, the empty check and
\* the entry into both loops. range(max_retries) is empty for max_retries <= 0,
\* and then no provider is tried at all.
CompleteStart(specific_provider) ==
    /\ pc = "idle"
    /\ op' = "complete"
    /\ specific' = specific_provider
    /\ candidates' = ResolveCandidates(specific_provider)
    /\ errors' = <<>>
    /\ attempt' = 0
    /\ IF candidates' = <<>>
       THEN /\ pc' = "done"
            /\ pidx' = 0
            /\ outcome' = NoProvidersAvailable
       ELSE IF RangeEmpty
            THEN /\ pc' = "done"
                 /\ pidx' = IF settings.auto_switch THEN Len(candidates') ELSE 1
                 /\ outcome' = MultiClientError(<<>>)
            ELSE /\ pc' = "try"
                 /\ pidx' = 1
                 /\ outcome' = NoOutcome
    /\ UNCHANGED <<regVars, settings, rerunVars, callerVars, log, prepVars, meetVars>>

\* _try_provider returns: complete returns that response.
TrySucceeds(content) ==
    /\ pc = "try"
    /\ op = "complete"
    /\ log' = Append(log, Event("attempt", candidates[pidx].id, attempt, TRUE))
    /\ outcome' = Returned(LLMResponse(candidates[pidx].id, content))
    /\ pc' = "done"
    /\ UNCHANGED <<regVars, settings, rerunVars, callerVars, op, specific, candidates, pidx, attempt, errors, prepVars, meetVars>>

\* _try_provider raises: the except branch, up to the next await or the raise.
TryFails ==
    /\ pc = "try"
    /\ op = "complete"
    /\ LET provider == candidates[pidx]
           error_msg == ErrorText(provider.id, attempt)
           failed == Append(log, Event("attempt", provider.id, attempt, FALSE))
       IN  /\ errors' = DictSet(errors, provider.name, error_msg)
           /\ IF MoreAttempts
              THEN /\ log' = Append(failed, Event("wait", provider.id, wait_time(attempt), FALSE))
                   /\ pc' = "sleep"
                   /\ UNCHANGED <<pidx, attempt, outcome>>
              ELSE /\ log' = failed
                   /\ IF SwitchToNext
                      THEN /\ pidx' = pidx + 1
                           /\ attempt' = 0
                           /\ pc' = "try"
                           /\ UNCHANGED outcome
                      ELSE /\ pc' = "done"
                           /\ outcome' = MultiClientError(errors')
                           /\ UNCHANGED <<pidx, attempt>>
    /\ UNCHANGED <<regVars, settings, rerunVars, callerVars, op, specific, candidates, prepVars, meetVars>>

\* asyncio.sleep(wait_time) returns: the next iteration of the attempt loop.
SleepDone ==
    /\ pc = "sleep"
    /\ op = "complete"
    /\ attempt' = attempt + 1
    /\ pc' = "try"
    /\ UNCHANGED <<regVars, settings, rerunVars, callerVars, op, specific, candidates, pidx, errors, log, outcome, prepVars, meetVars>>

\* stream up to the first chunk request: candidate resolution, the empty
\* check, and the first candidate's stream opened.
StreamStart(specific_provider) ==
    /\ pc = "idle"
    /\ op' = "stream"
    /\ specific' = specific_provider
    /\ candidates' = ResolveCandidates(specific_provider)
    /\ errors' = <<>>
    /\ attempt' = 0
    /\ IF candidates' = <<>>
       THEN /\ pc' = "done"
            /\ pidx' = 0
            /\ outcome' = NoProvidersAvailable
            /\ UNCHANGED log
       ELSE /\ pc' = "streaming"
            /\ pidx' = 1
            /\ outcome' = NoOutcome
            /\ log' = Append(log, Event("open", candidates'[1].id, 0, TRUE))
    /\ UNCHANGED <<regVars, settings, rerunVars, callerVars, prepVars, meetVars>>

\* Chunks the current candidate has yielded so far.
ChunksOfCurrent ==
    LET opened == CHOOSE j \in 1..Len(log) :
                      /\ log[j].ev = "open"
                      /\ \A k \in (j + 1)..Len(log) : log[k].ev # "open"
    IN  Len(log) - opened

\* client.stream yields a chunk: it is forwarded to the caller.
StreamChunk ==
    /\ pc = "streaming"
    /\ ChunksOfCurrent < MaxChunks
    /\ log' = Append(log, Event("chunk", candidates[pidx].id, ChunksOfCurrent, TRUE))
    /\ UNCHANGED <<regVars, settings, rerunVars, callerVars, pc, op, specific, candidates, pidx, attempt, errors, outcome, prepVars, meetVars>>

\* client.stream is exhausted: stream returns.
StreamEnds ==
    /\ pc = "streaming"
    /\ pc' = "done"
    /\ outcome' = Returned(None)
    /\ UNCHANGED <<regVars, settings, rerunVars, callerVars, op, specific, candidates, pidx, attempt, errors, log, prepVars, meetVars>>

\* The failed candidate opened again.
NextStreamCandidate_retry == pidx

\* for provider in providers: the loop has no inner retry loop.
NextStreamCandidate == pidx + 1

\* _create_client or client.stream raises: the except branch.
StreamRaises ==
    /\ pc = "streaming"
    /\ LET provider == candidates[pidx]
       IN  /\ errors' = DictSet(errors, provider.name, ErrorText(provider.id, ChunksOfCurrent))
           /\ IF SwitchToNext
              THEN /\ pidx' = NextStreamCandidate
                   /\ log' = Append(log, Event("open", candidates[pidx'].id, 0, TRUE))
                   /\ UNCHANGED <<pc, outcome>>
              ELSE /\ pc' = "done"
                   /\ outcome' = MultiClientError(errors')
                   /\ UNCHANGED <<pidx, log>>
    /\ UNCHANGED <<regVars, settings, rerunVars, callerVars, op, specific, candidates, attempt, prepVars, meetVars>>

\* The refusal of a disabled provider left out.
TestRefusal_unknown_only(provider_id) ==
    IF ~HasId(providers, provider_id) THEN "not found" ELSE None

\* Lines 164-169: the message test_provider refuses with, None when it goes on.
TestRefusal(provider_id) ==
    IF ~HasId(providers, provider_id) THEN "not found"
    ELSE IF ~get_provider(providers, provider_id).enabled THEN "is disabled"
    ELSE None

\* test_provider up to its await: the two refusals, or the single attempt.
TestStart(provider_id) ==
    /\ pc = "idle"
    /\ op' = "test"
    /\ specific' = provider_id
    /\ IF TestRefusal(provider_id) # None
       THEN /\ pc' = "done"
            /\ outcome' = Returned([success |-> FALSE, message |-> TestRefusal(provider_id)])
            /\ UNCHANGED candidates
       ELSE /\ pc' = "testing"
            /\ candidates' = <<get_provider(providers, provider_id)>>
            /\ UNCHANGED outcome
    /\ UNCHANGED <<regVars, settings, rerunVars, callerVars, pidx, attempt, errors, log, prepVars, meetVars>>

\* _try_provider returns inside test_provider.
TestSucceeds(content) ==
    /\ pc = "testing"
    /\ log' = Append(log, Event("attempt", candidates[1].id, 0, TRUE))
    /\ outcome' = Returned([success |-> TRUE,
                            message |-> IF content = "Test successful"
                                        THEN "is working"
                                        ELSE "responded (unexpected content)"])
    /\ pc' = "done"
    /\ UNCHANGED <<regVars, settings, rerunVars, callerVars, op, specific, candidates, pidx, attempt, errors, prepVars, meetVars>>

\* _try_provider raises inside test_provider.
TestFails ==
    /\ pc = "testing"
    /\ log' = Append(log, Event("attempt", candidates[1].id, 0, FALSE))
    /\ outcome' = Returned([success |-> FALSE, message |-> "failed"])
    /\ pc' = "done"
    /\ UNCHANGED <<regVars, settings, rerunVars, callerVars, op, specific, candidates, pidx, attempt, errors, prepVars, meetVars>>

\* ---------------------------------------------------------------- Spec
\* One MultiClient call against a configuration loaded from config_path;
\* before the call providers may be enabled and disabled. The registry holds
\* distinct ids (listed in insertion order p1, p2, ..: any other order is a
\* renaming of the ids).

RECURSIVE RegistriesOfLen(_)
RegistriesOfLen(n) ==
    IF n = 0 THEN {<<>>}
    ELSE {Append(r, ProviderConfig(ProviderId(n), nm, pr, en)) :
            r \in RegistriesOfLen(n - 1), nm \in Names,
            pr \in CallPriorities, en \in BOOLEAN}

CallRegistries == UNION {RegistriesOfLen(n) : n \in 0..MaxCallProviders}

\* The ids a caller may name: every registered id and one that is unknown.
CallIds == {ProviderId(i) : i \in 1..(MaxCallProviders + 1)}

Init ==
    /\ providers \in CallRegistries
    /\ saved = providers
    /\ result = None
    /\ settings \in {MultiProviderSettings(sw, mr, rd) :
                        sw \in BOOLEAN, mr \in 0..MaxRetries, rd \in RetryDelays}
    /\ CallIdle
    /\ PrepIdle
    /\ MeetIdle
    /\ RerunIdle
    /\ CallersIdle

Complete == \E sp \in CallIds \cup {None} : CompleteStart(sp)

AttemptSucceeds == \E c \in Contents : TrySucceeds(c)

Stream == \E sp \in CallIds \cup {None} : StreamStart(sp)

TestProvider == \E i \in CallIds : TestStart(i)

TestAttemptSucceeds == \E c \in Contents : TestSucceeds(c)

EnableBeforeCall == pc = "idle" /\ EnableProvider

DisableBeforeCall == pc = "idle" /\ DisableProvider

Next ==
    \/ EnableBeforeCall
    \/ DisableBeforeCall
    \/ Complete
    \/ AttemptSucceeds
    \/ TryFails
    \/ SleepDone
    \/ Stream
    \/ StreamChunk
    \/ StreamEnds
    \/ StreamRaises
    \/ TestProvider
    \/ TestAttemptSucceeds
    \/ TestFails

Spec == Init /\ [][Next]_vars

\* -------------------------------------------------------- SpecMidCall
\* A complete call and, while it is suspended in an attempt or a sleep, the
\* registry mutated by other callers of the same ProviderManager.

Suspended == op = "complete" /\ pc \in {"try", "sleep"}

\* The mutations are on the ids the call's registry can hold.
MidCallIds == {ProviderId(i) : i \in 1..MaxCallProviders}

AddMidCall ==
    /\ Suspended
    /\ \E i \in MidCallIds, pr \in CallPriorities, en \in BOOLEAN :
          add_provider(ProviderConfig(i, DisplayName(i), pr, en))

RemoveMidCall == Suspended /\ \E i \in MidCallIds : remove_provider(i)

EnableMidCall == Suspended /\ \E i \in MidCallIds : enable_provider(i)

DisableMidCall == Suspended /\ \E i \in MidCallIds : disable_provider(i)

\* The call starts on a full registry of providers under their own names.
MidCallRegistries ==
    {r \in RegistriesOfLen(MaxCallProviders) :
        \A j \in 1..Len(r) : r[j].name = DisplayName(r[j].id)}

InitMidCall ==
    /\ providers \in MidCallRegistries
    /\ saved = providers
    /\ result = None
    /\ settings \in {MultiProviderSettings(sw, mr, 1) : sw \in BOOLEAN, mr \in 1..2}
    /\ CallIdle
    /\ PrepIdle
    /\ MeetIdle
    /\ RerunIdle
    /\ CallersIdle

NextMidCall ==
    \/ Complete
    \/ AttemptSucceeds
    \/ TryFails
    \/ SleepDone
    \/ AddMidCall
    \/ RemoveMidCall
    \/ EnableMidCall
    \/ DisableMidCall

SpecMidCall == InitMidCall /\ [][NextMidCall]_vars

\* The complete calls alone.
NextComplete ==
    \/ Complete
    \/ AttemptSucceeds
    \/ TryFails
    \/ SleepDone

\* Every _try_provider call returns or raises and every asyncio.sleep returns.
SpecFair ==
    /\ Init
    /\ [][NextComplete]_vars
    /\ WF_vars(AttemptSucceeds \/ TryFails)
    /\ WF_vars(SleepDone)

\* ------------------------------------------------------- AsyncPrepPhase
\* A participant is an agent object: id, role and name (BaseAgent.__init__),
\* and whether it has a think attribute. The list holds each agent once.

AgentId(i) == "a" \o ToString(i)
AgentIds == {AgentId(i) : i \in 1..MaxParticipants}
RoleOf(a) == IF a = "a1" THEN "CEO" ELSE "Expert"
Agent(a, has_think) ==
    [id |-> a, role |-> RoleOf(a), name |-> RoleOf(a) \o "_" \o a, has_think |-> has_think]

PrepTexts == {"plan A", "plan B"}
PrepErrors == {"no LLM client configured", "All providers failed"}

\* Every participant taken, with or without a think attribute.
NextThinker_any(ps, i) == IF i + 1 <= Len(ps) THEN i + 1 ELSE Len(ps) + 1

\* The next index after i of the loop whose participant passes
\* hasattr(participant, "think"); Len + 1 when the loop is over.
NextThinker(ps, i) ==
    IF \E j \in (i + 1)..Len(ps) : ps[j].has_think
    THEN CHOOSE j \in (i + 1)..Len(ps) :
            /\ ps[j].has_think
            /\ \A k \in (i + 1)..(j - 1) : ~ps[k].has_think
    ELSE Len(ps) + 1

\* The failure ending the loop instead.
PrepOnError_abort(i) == Len(participants) + 1

\* Lines 41-47: the except branch records the error and the loop goes on.
PrepOnError(i) == NextThinker(participants, i)

\* The phase moves on to index j: the next think() call, or the return.
PrepAdvance(j) ==
    /\ prep_idx' = j
    /\ prep_pc' = IF j <= Len(participants) THEN "think" ELSE "done"

\* run up to its first await.
PrepRun ==
    /\ prep_pc = "idle"
    /\ prep_results' = <<>>
    /\ PrepAdvance(NextThinker(participants, 0))
    /\ UNCHANGED <<regVars, settings, rerunVars, callerVars, callVars, meetVars, participants, thoughts, prep_log>>

\* participant.think returns: the result entry, the thought, the next one.
ThinkReturnsStep(response) ==
    /\ prep_pc = "think"
    /\ LET participant == participants[prep_idx]
       IN  /\ prep_results' = DictSet(prep_results, participant.id,
                                  [agent_id |-> participant.id,
                                   agent_role |-> participant.role,
                                   agent_name |-> participant.name,
                                   preparation |-> response])
           /\ thoughts' = [thoughts EXCEPT ![participant.id] =
                              Append(@, "Prepared for meeting")]
           /\ prep_log' = Append(prep_log, [id |-> participant.id, ok |-> TRUE, text |-> response])
    /\ PrepAdvance(NextThinker(participants, prep_idx))
    /\ UNCHANGED <<regVars, settings, rerunVars, callerVars, callVars, participants>>

\* participant.think raises: the except branch, the next one.
ThinkRaisesStep(e) ==
    /\ prep_pc = "think"
    /\ LET participant == participants[prep_idx]
       IN  /\ prep_results' = DictSet(prep_results, participant.id,
                                  [agent_id |-> participant.id,
                                   agent_role |-> participant.role,
                                   agent_name |-> participant.name,
                                   error |-> e])
           /\ prep_log' = Append(prep_log, [id |-> participant.id, ok |-> FALSE, text |-> e])
    /\ PrepAdvance(PrepOnError(prep_idx))
    /\ UNCHANGED <<regVars, settings, rerunVars, callerVars, callVars, participants, thoughts>>

\* The phase run on its own: nothing of a meeting engine moves.
ThinkReturns(response) == ThinkReturnsStep(response) /\ UNCHANGED meetVars

ThinkRaises(e) == ThinkRaisesStep(e) /\ UNCHANGED meetVars

\* ------------------------------------------------------------- SpecPrep

RECURSIVE ParticipantLists(_)
ParticipantLists(n) ==
    IF n = 0 THEN {<<>>}
    ELSE {<<>>} \cup
         {Append(l, Agent(a, t)) :
            l \in ParticipantLists(n - 1), a \in AgentIds, t \in BOOLEAN}

DistinctAgents(l) == \A i, j \in 1..Len(l) : l[i].id = l[j].id => i = j

InitPrep ==
    /\ providers = _create_default_config
    /\ saved = providers
    /\ result = None
    /\ settings = DefaultSettings
    /\ CallIdle
    /\ participants \in {l \in ParticipantLists(MaxParticipants) : DistinctAgents(l)}
    /\ prep_idx = 0
    /\ prep_pc = "idle"
    /\ prep_results = <<>>
    /\ thoughts = [a \in AgentIds |-> <<>>]
    /\ prep_log = <<>>
    /\ MeetIdle
    /\ RerunIdle
    /\ CallersIdle

PrepThinkReturns == \E r \in PrepTexts : ThinkReturns(r)

PrepThinkRaises == \E e \in PrepErrors : ThinkRaises(e)

NextPrep ==
    \/ PrepRun
    \/ PrepThinkReturns
    \/ PrepThinkRaises

SpecPrep == InitPrep /\ [][NextPrep]_vars

\* ------------------------------------------------------ SynthesisParser
\* SyncDecisionPhase._extract_decisions_and_actions. A text is a sequence of
\* tokens: a token is a word, a punctuation mark, a blank or a line break, so
\* that "DECISION:" is <<"DECISION", ":">> and str methods act on tokens as
\* they act on characters.

SP == " "
NL == "\n"
DECISION_PREFIX == <<"DECISION", ":">>
NUMBERED_DECISION_PREFIX == <<"2.", SP, "DECISION", ":">>
ACTION_PREFIX == <<"ACTION", ":">>
NUMBERED_ACTION_PREFIX == <<"3.", SP, "ACTION", ":">>
OWNER_DELIMITER == <<"|", SP, "OWNER", ":">>
DEADLINE_DELIMITER == <<"|", SP, "DEADLINE", ":">>
COLON == <<":">>
\* A default other than "TBD".
TBD_blank == <<>>

TBD == <<"TBD">>

\* The value of an expression that raises IndexError.
IndexError == <<"IndexError">>

\* str.startswith
StartsWith(s, prefix) ==
    /\ Len(s) >= Len(prefix)
    /\ SubSeq(s, 1, Len(prefix)) = prefix

\* str.find, 1-based; 0 when sep does not occur.
Find(s, sep) ==
    IF \E i \in 1..(Len(s) - Len(sep) + 1) : SubSeq(s, i, i + Len(sep) - 1) = sep
    THEN CHOOSE i \in 1..(Len(s) - Len(sep) + 1) :
            /\ SubSeq(s, i, i + Len(sep) - 1) = sep
            /\ \A j \in 1..(i - 1) : SubSeq(s, j, j + Len(sep) - 1) # sep
    ELSE 0

\* sep in s
Contains(s, sep) == Find(s, sep) # 0

\* str.strip
RECURSIVE LStrip(_)
LStrip(s) == IF s # <<>> /\ Head(s) \in {SP, NL} THEN LStrip(Tail(s)) ELSE s

RECURSIVE RStrip(_)
RStrip(s) ==
    IF s # <<>> /\ s[Len(s)] \in {SP, NL} THEN RStrip(SubSeq(s, 1, Len(s) - 1)) ELSE s

Strip(s) == IF s = IndexError THEN IndexError ELSE RStrip(LStrip(s))

\* str.split(sep): every occurrence, left to right.
RECURSIVE Split(_, _)
Split(s, sep) ==
    IF Contains(s, sep)
    THEN <<SubSeq(s, 1, Find(s, sep) - 1)>>
            \o Split(SubSeq(s, Find(s, sep) + Len(sep), Len(s)), sep)
    ELSE <<s>>

\* str.split(sep, 1)
SplitOnce(s, sep) ==
    IF Contains(s, sep)
    THEN <<SubSeq(s, 1, Find(s, sep) - 1), SubSeq(s, Find(s, sep) + Len(sep), Len(s))>>
    ELSE <<s>>

\* parts[k] of a Python list, 0-based.
Item(parts, k) == IF k + 1 <= Len(parts) THEN parts[k + 1] ELSE IndexError

\* The text after the last colon of the line.
AfterFirstColon_last(line) ==
    IF Contains(line, COLON)
    THEN Strip(SubSeq(line,
                      1 + CHOOSE i \in 1..Len(line) :
                              line[i] = ":" /\ \A j \in (i + 1)..Len(line) : line[j] # ":",
                      Len(line)))
    ELSE line

\* line.split(":", 1)[1].strip() if ":" in line else line
AfterFirstColon(line) ==
    IF Contains(line, COLON) THEN Strip(Item(SplitOnce(line, COLON), 1)) ELSE line

IsDecisionLine(line) ==
    StartsWith(line, DECISION_PREFIX) \/ StartsWith(line, NUMBERED_DECISION_PREFIX)

IsActionLine(line) ==
    /\ ~IsDecisionLine(line)
    /\ StartsWith(line, ACTION_PREFIX) \/ StartsWith(line, NUMBERED_ACTION_PREFIX)

\* str(uuid.uuid4())[:8]: the n-th id generated.
FreshId(n) == "id" \o ToString(n)

\* Lines 208-213: the decision appended for a stripped line.
DecisionOf(line, n) ==
    [id |-> FreshId(n), description |-> AfterFirstColon(line), status |-> "proposed"]

\* Lines 215-237: the action item appended for a stripped line.
ActionOf(line, n) ==
    LET action_text == AfterFirstColon(line)
        parts == Split(action_text, OWNER_DELIMITER)
        rest == Item(parts, 1)
    IN  IF Contains(action_text, OWNER_DELIMITER)
        THEN IF Contains(rest, DEADLINE_DELIMITER)
             THEN [id |-> FreshId(n),
                   description |-> Strip(Item(parts, 0)),
                   owner |-> Strip(Item(Split(rest, DEADLINE_DELIMITER), 0)),
                   deadline |-> Strip(Item(Split(rest, DEADLINE_DELIMITER), 1)),
                   status |-> "todo"]
             ELSE [id |-> FreshId(n),
                   description |-> Strip(Item(parts, 0)),
                   owner |-> Strip(rest),
                   deadline |-> TBD,
                   status |-> "todo"]
        ELSE [id |-> FreshId(n),
              description |-> action_text,
              owner |-> TBD,
              deadline |-> TBD,
              status |-> "todo"]

\* The new item put in front.
AppendItem_front(items, item) == <<item>> \o items

\* self.decisions.append(...), self.action_items.append(...)
AppendItem(items, item) == Append(items, item)

\* The loop over lines: the pair of lists after the lines in `lines`.
RECURSIVE ExtractLines(_)
ExtractLines(lines) ==
    IF lines = <<>> THEN [decisions |-> <<>>, action_items |-> <<>>]
    ELSE LET before == ExtractLines(SubSeq(lines, 1, Len(lines) - 1))
             line == Strip(lines[Len(lines)])
             n == Len(before.decisions) + Len(before.action_items) + 1
         IN  IF IsDecisionLine(line)
             THEN [before EXCEPT !.decisions = AppendItem(@, DecisionOf(line, n))]
             ELSE IF IsActionLine(line)
             THEN [before EXCEPT !.action_items = AppendItem(@, ActionOf(line, n))]
             ELSE before

_extract_decisions_and_actions(text) == ExtractLines(Split(text, <<NL>>))

\* The ids of a parse made after k earlier draws: every str(uuid.uuid4())[:8]
\* of the parser is taken as a new value, numbered by the count of draws.
Drawn(parsed, k) ==
    LET total == Len(parsed.decisions) + Len(parsed.action_items)
        Shift(item) ==
            [item EXCEPT !.id = FreshId(k + CHOOSE n \in 1..total : FreshId(n) = item.id)]
    IN  [decisions |-> [i \in 1..Len(parsed.decisions) |-> Shift(parsed.decisions[i])],
         action_items |->
             [i \in 1..Len(parsed.action_items) |-> Shift(parsed.action_items[i])]]


\* --------------------------------------------------------- MeetingEngine
\* MeetingStatus and MeetingPhase; both enums spell COMPLETED "completed".
SCHEDULED == "scheduled"
IN_PROGRESS == "in_progress"
ASYNC_PREP == "async_prep"
SYNC_DECISION == "sync_decision"
COMPLETED == "completed"

\* for round_num in range(2)
Rounds == 2

MeetingContext(meeting_id, title, agenda) ==
    [meeting_id |-> meeting_id, title |-> title, agenda |-> agenda,
     status |-> SCHEDULED, current_phase |-> ASYNC_PREP]

\* The initial MeetingLog of create_meeting.
MeetingLog(meeting_id, title, agenda, ps) ==
    [id |-> meeting_id, title |-> title, agenda |-> agenda,
     participants |-> [i \in 1..Len(ps) |-> ps[i].name],
     phase |-> ASYNC_PREP, decisions |-> <<>>, action_items |-> <<>>,
     discussion_summary |-> 0]

\* ArtifactStore.save: one file per type and id, overwritten.
Save(st, type, id, artifact) == DictSet(st, <<type, id>>, artifact)

\* The Decision and the ActionItem run_meeting builds from the parsed dicts.
Decision(d, meeting_id) ==
    [id |-> d.id, title |-> d.description, description |-> d.description,
     status |-> "proposed", proposed_by |-> "meeting", meeting_id |-> meeting_id]

ActionItem(a, meeting_id) ==
    [id |-> a.id, description |-> a.description, owner |-> a.owner,
     status |-> "todo", meeting_id |-> meeting_id]

RECURSIVE SaveDecisions(_, _, _)
SaveDecisions(st, ds, meeting_id) ==
    IF ds = <<>> THEN st
    ELSE SaveDecisions(Save(st, "decision", Head(ds).id, Decision(Head(ds), meeting_id)),
                       Tail(ds), meeting_id)

RECURSIVE SaveActionItems(_, _, _)
SaveActionItems(st, as, meeting_id) ==
    IF as = <<>> THEN st
    ELSE SaveActionItems(Save(st, "action_item", Head(as).id, ActionItem(Head(as), meeting_id)),
                         Tail(as), meeting_id)

Ids(items) == [i \in 1..Len(items) |-> items[i].id]

Keys(type, items) == [i \in 1..Len(items) |-> <<type, items[i].id>>]

\* The ids of the run added to the ones the log lists.
UpdateLog_append(st, meeting_id, dlog, ds, as) ==
    IF <<"meeting", meeting_id>> \in DOMAIN st
    THEN Save(st, "meeting", meeting_id,
              [st[<<"meeting", meeting_id>>] EXCEPT
                  !.phase = COMPLETED, !.decisions = @ \o Ids(ds),
                  !.action_items = @ \o Ids(as), !.discussion_summary = Len(dlog)])
    ELSE st

\* Lines 106-115: the stored meeting log, when there is one, is updated.
UpdateLog(st, meeting_id, dlog, ds, as) ==
    IF <<"meeting", meeting_id>> \in DOMAIN st
    THEN Save(st, "meeting", meeting_id,
              [st[<<"meeting", meeting_id>>] EXCEPT
                  !.phase = COMPLETED, !.decisions = Ids(ds),
                  !.action_items = Ids(as), !.discussion_summary = Len(dlog)])
    ELSE st

\* Only the status set, the phase left as it was.
SetContext_status_only(am, meeting_id, status, phase) ==
    [am EXCEPT ![meeting_id].status = status]

SetContext(am, meeting_id, status, phase) ==
    [am EXCEPT ![meeting_id].status = status, ![meeting_id].current_phase = phase]

SetPhase(am, meeting_id, phase) == [am EXCEPT ![meeting_id].current_phase = phase]

\* Lines 101-144: the decision phase has returned; the context is completed,
\* the artifacts are saved and the result is returned.
FinishRun(meeting_id, am, tr, pr, dlog, ds, as) ==
    /\ active_meetings' = SetContext(am, meeting_id, COMPLETED, COMPLETED)
    /\ phase_trace' = Append(tr, <<COMPLETED, COMPLETED>>)
    /\ store' = SaveActionItems(
                    SaveDecisions(UpdateLog(store, meeting_id, dlog, ds, as), ds, meeting_id),
                    as, meeting_id)
    /\ saves' = saves
                \o (IF <<"meeting", meeting_id>> \in DOMAIN store
                    THEN <<(<<"meeting", meeting_id>>)>> ELSE <<>>)
                \o Keys("decision", ds) \o Keys("action_item", as)
    /\ run_result' = [kind |-> "returned", meeting_id |-> meeting_id,
                      title |-> am[meeting_id].title, prep_results |-> pr,
                      discussion_log |-> dlog, decisions |-> ds,
                      action_items |-> as, status |-> "completed"]
    /\ run_pc' = "returned"

\* ----------------------------------------------------- SyncDecisionPhase
\* discussion_context is a string built by appending; it is kept as the
\* sequence of the pieces appended, the header first.

ContextEntry(kind, name, text) == [kind |-> kind, name |-> name, text |-> text]

\* Lines 137-143: the header and the successful preparations, in the order
\* of the prep_results dict, which is the order of the participants.
_build_discussion_context(title, ps, pr) ==
    LET Prepared(p) == p.id \in DOMAIN pr /\ "preparation" \in DOMAIN pr[p.id]
        prepared == SelectSeq(ps, Prepared)
    IN  <<ContextEntry("header", "Meeting", title)>>
        \o [i \in 1..Len(prepared) |->
               ContextEntry("preparation", prepared[i].name, pr[prepared[i].id].preparation)]

\* The context left unchanged by a response.
ContextAfterResponse_dropped(ctx, participant, response) == ctx

\* discussion_context += f"\n\n{participant.name}: {response}"
ContextAfterResponse(ctx, participant, response) ==
    Append(ctx, ContextEntry("said", participant.name, response))

\* The failure leaving no trace in the context.
ContextAfterError_silent(ctx, participant, e) == ctx

\* discussion_context += f"\n\n{participant.name}: [Error: {e}]"
ContextAfterError(ctx, participant, e) ==
    Append(ctx, ContextEntry("error", participant.name, e))

AgentThought(participant, response) ==
    [agent_id |-> participant.id, agent_role |-> participant.role, content |-> response]

\* A single round of discussion.
NextTurn_one_round(ps, r, i) ==
    IF NextThinker(ps, i) <= Len(ps) THEN <<r, NextThinker(ps, i)>> ELSE <<Rounds, 0>>

\* The turn after index i of round r of the two nested loops: <<round, index>>
\* of the next participant with a think attribute, <<Rounds, 0>> when the
\* loops are over.
NextTurn(ps, r, i) ==
    IF NextThinker(ps, i) <= Len(ps) THEN <<r, NextThinker(ps, i)>>
    ELSE IF r + 1 < Rounds /\ NextThinker(ps, 0) <= Len(ps)
         THEN <<r + 1, NextThinker(ps, 0)>>
         ELSE <<Rounds, 0>>

\* The first participant taken whatever the roles.
_get_facilitator_first(ps) == IF ps # <<>> THEN 1 ELSE 0

\* Lines 175-180: the index of the facilitator, 0 for None.
_get_facilitator(ps) ==
    IF \E j \in 1..Len(ps) : ps[j].role = "CEO"
    THEN CHOOSE j \in 1..Len(ps) :
            /\ ps[j].role = "CEO"
            /\ \A k \in 1..(j - 1) : ps[k].role # "CEO"
    ELSE IF ps # <<>> THEN 1 ELSE 0

\* The synthesis asked of any facilitator there is.
FacilitatorThinks_any(ps) == _get_facilitator(ps) # 0

\* if facilitator and hasattr(facilitator, "think")
FacilitatorThinks(ps) ==
    /\ _get_facilitator(ps) # 0
    /\ ps[_get_facilitator(ps)].has_think

\* The phase goes on after index i of round r with the context ctx and the
\* log dlog, up to its next await: a turn, the synthesis, or, with neither,
\* its return and the rest of run_meeting.
SyncAdvance(meeting_id, am, tr, pr, r, i, ctx, dlog) ==
    LET next == NextTurn(participants, r, i)
    IN  /\ discussion_context' = ctx
        /\ discussion_log' = dlog
        /\ decisions' = <<>>
        /\ action_items' = <<>>
        /\ round_num' = next[1]
        /\ UNCHANGED synthesis
        /\ IF next[1] < Rounds
           THEN /\ run_pc' = "turn"
                /\ turn_idx' = next[2]
                /\ active_meetings' = am
                /\ phase_trace' = tr
                /\ UNCHANGED <<store, saves, run_result>>
           ELSE IF FacilitatorThinks(participants)
           THEN /\ run_pc' = "synthesize"
                /\ turn_idx' = _get_facilitator(participants)
                /\ active_meetings' = am
                /\ phase_trace' = tr
                /\ UNCHANGED <<store, saves, run_result>>
           ELSE /\ turn_idx' = _get_facilitator(participants)
                /\ FinishRun(meeting_id, am, tr, pr, dlog, <<>>, <<>>)

\* The log left by the phase object of the call before, kept.
NewDiscussionLog_kept == discussion_log

\* SyncDecisionPhase.__init__: self.discussion_log = []
NewDiscussionLog == <<>>

\* engine.py lines 92-96: the preparation phase has returned pr; the phase
\* is set and SyncDecisionPhase.run starts.
EnterSync(meeting_id, am, tr, pr) ==
    SyncAdvance(meeting_id,
                SetPhase(am, meeting_id, SYNC_DECISION),
                Append(tr, <<am[meeting_id].status, SYNC_DECISION>>),
                pr, 0, 0,
                _build_discussion_context(am[meeting_id].title, participants, pr),
                NewDiscussionLog)

TurnEntry(kind, ok, text) ==
    [kind |-> kind, round |-> round_num, id |-> participants[turn_idx].id,
     context |-> discussion_context, ok |-> ok, text |-> text]

\* participant.think returns in a discussion turn.
TurnReturns(response) ==
    /\ run_pc = "turn"
    /\ LET participant == participants[turn_idx]
       IN  /\ thoughts' = [thoughts EXCEPT ![participant.id] =
                              Append(@, "Spoke in meeting round " \o ToString(round_num + 1))]
           /\ turn_log' = Append(turn_log, TurnEntry("turn", TRUE, response))
           /\ SyncAdvance(run_id, active_meetings, phase_trace, prep_results,
                          round_num, turn_idx,
                          ContextAfterResponse(discussion_context, participant, response),
                          Append(discussion_log, AgentThought(participant, response)))
    /\ UNCHANGED <<regVars, settings, rerunVars, callerVars, callVars, participants, prep_idx, prep_pc,
                   prep_results, prep_log, run_id>>

\* participant.think raises in a discussion turn: the except branch.
TurnRaises(e) ==
    /\ run_pc = "turn"
    /\ turn_log' = Append(turn_log, TurnEntry("turn", FALSE, e))
    /\ SyncAdvance(run_id, active_meetings, phase_trace, prep_results,
                   round_num, turn_idx,
                   ContextAfterError(discussion_context, participants[turn_idx], e),
                   discussion_log)
    /\ UNCHANGED <<regVars, settings, rerunVars, callerVars, callVars, prepVars, run_id>>

\* facilitator.think returns: the synthesis is parsed, the phase returns and
\* run_meeting runs to its end.
SynthesisReturns(text) ==
    /\ run_pc = "synthesize"
    /\ synthesis' = text
    /\ decisions' = Drawn(_extract_decisions_and_actions(text), uuid_count).decisions
    /\ action_items' = Drawn(_extract_decisions_and_actions(text), uuid_count).action_items
    /\ uuid_count' = uuid_count + Len(decisions') + Len(action_items')
    /\ turn_log' = Append(turn_log, TurnEntry("synthesize", TRUE, text))
    /\ FinishRun(run_id, active_meetings, phase_trace, prep_results,
                 discussion_log, decisions', action_items')
    /\ UNCHANGED <<regVars, settings, finished, callerVars, callVars, prepVars, run_id,
                   round_num, turn_idx, discussion_context, discussion_log>>

\* The failure of the synthesis cancelling the meeting.
SynthesisRaises_cancels(e) ==
    /\ run_pc = "synthesize"
    /\ run_pc' = "raised"
    /\ run_result' = [kind |-> "raised", error |-> e]
    /\ turn_log' = Append(turn_log, TurnEntry("synthesize", FALSE, e))
    /\ active_meetings' = [active_meetings EXCEPT ![run_id].status = "cancelled"]
    /\ UNCHANGED <<regVars, settings, rerunVars, callerVars, callVars, prepVars, store,
                   saves, run_id, phase_trace, round_num, turn_idx,
                   discussion_context, discussion_log, decisions, action_items,
                   synthesis>>

\* facilitator.think raises: line 119 is outside any try, so the exception
\* leaves SyncDecisionPhase.run and run_meeting.
SynthesisRaises(e) ==
    /\ run_pc = "synthesize"
    /\ run_pc' = "raised"
    /\ run_result' = [kind |-> "raised", error |-> e]
    /\ turn_log' = Append(turn_log, TurnEntry("synthesize", FALSE, e))
    /\ UNCHANGED <<regVars, settings, rerunVars, callerVars, callVars, prepVars, active_meetings, store,
                   saves, run_id, phase_trace, round_num, turn_idx,
                   discussion_context, discussion_log, decisions, action_items,
                   synthesis>>

\* ------------------------------------------------- MeetingEngine actions

\* create_meeting: the context is registered and the initial log saved.
create_meeting(meeting_id, title, agenda, ps) ==
    /\ run_pc = "idle"
    /\ meeting_id \notin DOMAIN active_meetings
    /\ participants' = ps
    /\ active_meetings' = DictSet(active_meetings, meeting_id,
                                  MeetingContext(meeting_id, title, agenda))
    /\ store' = Save(store, "meeting", meeting_id, MeetingLog(meeting_id, title, agenda, ps))
    /\ saves' = Append(saves, <<"meeting", meeting_id>>)
    /\ UNCHANGED <<regVars, settings, rerunVars, callerVars, callVars, prep_idx, prep_pc, prep_results,
                   thoughts, prep_log, run_pc, run_id, run_result, phase_trace,
                   syncVars>>

\* A result that reports a completed meeting.
NotFound_completed(meeting_id) ==
    [kind |-> "returned", meeting_id |-> meeting_id, status |-> "completed"]

\* return {"error": f"Meeting {meeting_id} not found"}
NotFound(meeting_id) ==
    [kind |-> "returned", error |-> "Meeting " \o meeting_id \o " not found"]

\* run_meeting up to its first await, or to its return when nothing awaits.
run_meeting(meeting_id) ==
    /\ run_pc = "idle"
    /\ run_id' = meeting_id
    /\ IF meeting_id \notin DOMAIN active_meetings
       THEN /\ run_pc' = "returned"
            /\ run_result' = NotFound(meeting_id)
            /\ UNCHANGED <<prepVars, active_meetings, store, saves, phase_trace, syncVars>>
       ELSE /\ prep_results' = <<>>
            /\ PrepAdvance(NextThinker(participants, 0))
            /\ UNCHANGED <<participants, thoughts, prep_log>>
            /\ IF NextThinker(participants, 0) <= Len(participants)
               THEN /\ run_pc' = "prep"
                    /\ active_meetings' =
                          SetContext(active_meetings, meeting_id, IN_PROGRESS, ASYNC_PREP)
                    /\ phase_trace' = Append(phase_trace, <<IN_PROGRESS, ASYNC_PREP>>)
                    /\ UNCHANGED <<store, saves, run_result, syncVars>>
               ELSE /\ EnterSync(meeting_id,
                                 SetContext(active_meetings, meeting_id, IN_PROGRESS, ASYNC_PREP),
                                 Append(phase_trace, <<IN_PROGRESS, ASYNC_PREP>>),
                                 <<>>)
                    /\ UNCHANGED turn_log
    /\ UNCHANGED <<regVars, settings, rerunVars, callerVars, callVars>>

\* A think() call of the preparation phase ends inside run_meeting: with the
\* last one the phase returns and the decision phase starts in the same step.
AfterPrepStep ==
    IF prep_pc' = "done"
    THEN /\ EnterSync(run_id, active_meetings, phase_trace, prep_results')
         /\ UNCHANGED <<run_id, turn_log>>
    ELSE UNCHANGED meetVars

MeetingThinkReturns(response) ==
    /\ run_pc = "prep"
    /\ ThinkReturnsStep(response)
    /\ AfterPrepStep

MeetingThinkRaises(e) ==
    /\ run_pc = "prep"
    /\ ThinkRaisesStep(e)
    /\ AfterPrepStep

\* ---------------------------------------------------------- SpecMeeting
\* One engine, one meeting created with the participants in the order
\* a1, a2, ..., each with a role and with or without a think attribute, and
\* one run_meeting call, on the id of the meeting or on an id never created.

Roles == {"CEO", "Expert"}
Participant(a, role, has_think) ==
    [id |-> a, role |-> role, name |-> role \o "_" \o a, has_think |-> has_think]

MeetingParticipantLists ==
    UNION {{[i \in 1..n |-> Participant(AgentId(i), f[i][1], f[i][2])] :
              f \in [1..n -> Roles \X BOOLEAN]} : n \in 0..MaxParticipants}

MeetingIds == {"m1"}
UnknownMeetingIds == {"m2"}
Titles == {"Roadmap"}
Agendas == {<<"Q3 priorities">>}

\* What a participant says in a turn, told apart by speaker and round.
TurnText(a, r) == "view of " \o a \o " in round " \o ToString(r + 1)
TurnErrors == {"All providers failed"}
MeetingPrepTexts == {"plan A"}
MeetingPrepErrors == {"All providers failed"}

SynthesisTexts ==
    {<<"SUMMARY", ":", SP, "nothing", SP, "settled">>,
     DECISION_PREFIX \o <<SP, "Ship", SP, "v2", NL>>
        \o ACTION_PREFIX \o <<SP, "Write", SP, "docs", SP>>
        \o OWNER_DELIMITER \o <<SP, "Product", SP>>
        \o DEADLINE_DELIMITER \o <<SP, "2", SP, "weeks">>}

InitMeeting ==
    /\ providers = _create_default_config
    /\ saved = providers
    /\ result = None
    /\ settings = DefaultSettings
    /\ CallIdle
    /\ participants = <<>>
    /\ prep_idx = 0
    /\ prep_pc = "idle"
    /\ prep_results = <<>>
    /\ thoughts = [a \in AgentIds |-> <<>>]
    /\ prep_log = <<>>
    /\ MeetIdle
    /\ RerunIdle
    /\ CallersIdle

CreateMeeting ==
    \E m \in MeetingIds, t \in Titles, ag \in Agendas, ps \in MeetingParticipantLists :
        create_meeting(m, t, ag, ps)

RunMeeting == \E m \in MeetingIds \cup UnknownMeetingIds : run_meeting(m)

PrepReturnsInMeeting == \E r \in MeetingPrepTexts : MeetingThinkReturns(r)

PrepRaisesInMeeting == \E e \in MeetingPrepErrors : MeetingThinkRaises(e)

TurnSucceeds == TurnReturns(TurnText(participants[turn_idx].id, round_num))

TurnFails == \E e \in TurnErrors : TurnRaises(e)

SynthesisSucceeds == \E text \in SynthesisTexts : SynthesisReturns(text)

SynthesisFails == \E e \in TurnErrors : SynthesisRaises(e)

NextMeeting ==
    \/ CreateMeeting
    \/ RunMeeting
    \/ PrepReturnsInMeeting
    \/ PrepRaisesInMeeting
    \/ TurnSucceeds
    \/ TurnFails
    \/ SynthesisSucceeds
    \/ SynthesisFails

SpecMeeting == InitMeeting /\ [][NextMeeting]_vars

\* ------------------------------------------------------------ SpecRerun
\* The same engine with its caller calling again: when a run_meeting call
\* has returned or raised, the caller takes the outcome and the coroutine is
\* gone; the engine, the contexts, the store and the phase objects' last
\* values stay as the call left them, and run_meeting may be called again.

MaxRuns == 2

\* The outcome of the ended call goes to its caller; the histories of the
\* call are filed with it.
ResultTaken ==
    /\ run_pc \in {"returned", "raised"}
    /\ Len(finished) + 1 < MaxRuns
    /\ finished' = Append(finished,
                          [meeting_id |-> run_id, result |-> run_result,
                           prep_log |-> prep_log, turn_log |-> turn_log,
                           phase_trace |-> phase_trace])
    /\ run_pc' = "idle"
    /\ run_id' = None
    /\ run_result' = NoOutcome
    /\ prep_log' = <<>>
    /\ turn_log' = <<>>
    /\ phase_trace' = <<>>
    /\ UNCHANGED <<regVars, settings, uuid_count, callerVars, callVars, participants,
                   prep_idx, prep_pc, prep_results, thoughts, active_meetings, store,
                   saves, round_num, turn_idx, discussion_context, discussion_log,
                   decisions, action_items, synthesis>>

RerunParticipantLists ==
    {<<>>,
     <<Participant("a1", "CEO", TRUE)>>,
     <<Participant("a1", "Expert", FALSE), Participant("a2", "CEO", TRUE)>>}

CreateForRerun ==
    \E m \in MeetingIds, t \in Titles, ag \in Agendas, ps \in RerunParticipantLists :
        create_meeting(m, t, ag, ps)

NextRerun ==
    \/ CreateForRerun
    \/ RunMeeting
    \/ PrepReturnsInMeeting
    \/ PrepRaisesInMeeting
    \/ TurnSucceeds
    \/ TurnFails
    \/ SynthesisSucceeds
    \/ SynthesisFails
    \/ ResultTaken

SpecRerun == InitMeeting /\ [][NextRerun]_vars

\* ----------------------------------------------------------- SpecParser
\* One call of _extract_decisions_and_actions on a fresh SyncDecisionPhase.
\* The text is either one line, a prefix followed by up to MaxBody pieces
\* (a word, a blank, a colon, or one of the two delimiters), or up to
\* MaxLines lines of a prefix and at most one piece.

BodyPieces == {<<"Ship">>, <<SP>>, COLON, OWNER_DELIMITER, DEADLINE_DELIMITER}

RECURSIVE Bodies(_)
Bodies(n) ==
    IF n = 0 THEN {<<>>}
    ELSE {<<>>} \cup {b \o p : b \in Bodies(n - 1), p \in BodyPieces}

ShortBodies == {<<>>} \cup BodyPieces

\* How a line starts: with one of the four prefixes, or with something that
\* is none of them.
LinePrefixes ==
    {<<>>, DECISION_PREFIX, NUMBERED_DECISION_PREFIX, ACTION_PREFIX,
     NUMBERED_ACTION_PREFIX, <<"Re", SP>> \o DECISION_PREFIX, <<"ACTION">>}

Indents == {<<>>, <<SP>>}

LongLines == {i \o h \o b : i \in Indents, h \in LinePrefixes, b \in Bodies(MaxBody)}

ShortLines == {h \o b : h \in LinePrefixes, b \in ShortBodies}

RECURSIVE TextsOfLines(_)
TextsOfLines(n) ==
    IF n <= 1 THEN ShortLines
    ELSE TextsOfLines(n - 1)
         \cup {t \o <<NL>> \o l : t \in TextsOfLines(n - 1), l \in ShortLines}

ParserTexts == LongLines \cup TextsOfLines(MaxLines)

\* An IndexError raised while a line was handled.
Raised(parsed) ==
    \/ \E i \in 1..Len(parsed.decisions) : parsed.decisions[i].description = IndexError
    \/ \E i \in 1..Len(parsed.action_items) :
          IndexError \in {parsed.action_items[i].description,
                          parsed.action_items[i].owner,
                          parsed.action_items[i].deadline}

InitParser ==
    /\ providers = _create_default_config
    /\ saved = providers
    /\ result = None
    /\ settings = DefaultSettings
    /\ CallIdle
    /\ PrepIdle
    /\ active_meetings = <<>>
    /\ store = <<>>
    /\ saves = <<>>
    /\ run_pc = "extract"
    /\ run_id = None
    /\ run_result = NoOutcome
    /\ round_num = 0
    /\ turn_idx = 0
    /\ discussion_context = <<>>
    /\ discussion_log = <<>>
    /\ decisions = <<>>
    /\ action_items = <<>>
    /\ synthesis \in ParserTexts
    /\ turn_log = <<>>
    /\ phase_trace = <<>>
    /\ CallersIdle
    /\ RerunIdle

\* self._extract_decisions_and_actions(synthesis)
Extract ==
    /\ run_pc = "extract"
    /\ IF Raised(_extract_decisions_and_actions(synthesis))
       THEN /\ run_pc' = "raised"
            /\ run_result' = [kind |-> "raised", error |-> "IndexError"]
            /\ UNCHANGED <<decisions, action_items>>
       ELSE /\ run_pc' = "extracted"
            /\ decisions' = _extract_decisions_and_actions(synthesis).decisions
            /\ action_items' = _extract_decisions_and_actions(synthesis).action_items
            /\ UNCHANGED run_result
    /\ UNCHANGED <<regVars, settings, rerunVars, callerVars, callVars, prepVars, active_meetings, store,
                   saves, run_id, phase_trace, round_num, turn_idx,
                   discussion_context, discussion_log, synthesis, turn_log>>

NextParser == Extract

SpecParser == InitParser /\ [][NextParser]_vars

\* ---------------------------------------------------- concurrent callers
\* One engine on one event loop, as in the API process: callers create
\* meetings and run them, and the coroutines interleave at their awaits.
\* Python keeps objects by reference: here active_meetings maps a meeting id
\* to the index of a MeetingContext object in contexts, the agenda of a
\* context is a reference into lists, and a run keeps the index of the
\* context it looked up. Of the phases a run keeps its position, its
\* discussion log and what it sets and saves.

MaxCreates == 2
MaxRunners == 2
MaxAgenda == 2

Runners == 1..MaxRunners
ListRefs == {"list1"}
\* The values of str(uuid.uuid4())[:8].
Uuid8 == {"m1", "m2"}
AgendaItems == {"Hiring"}
CallerParticipantLists == {<<>>, <<Participant("a1", "CEO", TRUE)>>}
CallerSynthesisTexts == {<<"SUMMARY", ":", SP, "nothing", SP, "settled">>}

\* MeetingContext(..., agenda=agenda, participants=participants, ...): the
\* object holds the references it was given.
ContextObject(meeting_id, title, agenda, ps) ==
    [participants |-> ps] @@ MeetingContext(meeting_id, title, agenda)

IdleRun ==
    [pc |-> "idle", meeting_id |-> None, context |-> 0, round |-> 0, idx |-> 0,
     discussion_log |-> <<>>, result |-> "none"]

\* create_meeting as a caller sees it: the id is drawn, the context object
\* is built around the caller's list and put in the table under the id, the
\* initial log is saved (MeetingLog copies the items) and the context is
\* returned.
create_meeting_call(meeting_id, title, agenda, ps) ==
    /\ Len(contexts) < MaxCreates
    /\ contexts' = Append(contexts, ContextObject(meeting_id, title, agenda, ps))
    /\ active_meetings' = DictSet(active_meetings, meeting_id, Len(contexts) + 1)
    /\ store' = Save(store, "meeting", meeting_id,
                     MeetingLog(meeting_id, title, lists[agenda], ps))
    /\ saves' = Append(saves, <<"meeting", meeting_id>>)
    /\ create_log' = Append(create_log,
                            [meeting_id |-> meeting_id,
                             known |-> DOMAIN active_meetings,
                             returned |-> Len(contexts) + 1,
                             status |-> ContextObject(meeting_id, title, agenda, ps).status,
                             current_phase |->
                                 ContextObject(meeting_id, title, agenda, ps).current_phase,
                             agenda |-> lists[agenda]])
    /\ UNCHANGED <<regVars, settings, rerunVars, callVars, prepVars, run_pc, run_id, run_result,
                   phase_trace, syncVars, lists, runs, prompt_log, write_log>>

\* The caller appends an item to a list it owns.
AgendaAppend(l, item) ==
    /\ Len(lists[l]) < MaxAgenda
    /\ lists' = [lists EXCEPT ![l] = Append(@, item)]
    /\ UNCHANGED <<regVars, settings, rerunVars, callVars, prepVars, meetVars, contexts, runs,
                   create_log, prompt_log, write_log>>

\* Where the code of the phases, going on after index i of the preparation
\* loop, next suspends: at a think() call of the preparation, or, the loop
\* over, in the decision phase.
AfterTurns(ps, r, i) ==
    LET next == NextTurn(ps, r, i)
    IN  IF next[1] < Rounds
        THEN [pc |-> "turn", round |-> next[1], idx |-> next[2]]
        ELSE IF FacilitatorThinks(ps)
        THEN [pc |-> "synthesize", round |-> Rounds, idx |-> _get_facilitator(ps)]
        ELSE [pc |-> "returned", round |-> Rounds, idx |-> 0]

AfterPrep(ps, i) ==
    IF NextThinker(ps, i) <= Len(ps)
    THEN [pc |-> "prep", round |-> 0, idx |-> NextThinker(ps, i)]
    ELSE AfterTurns(ps, 0, 0)

\* The runs other than r that are between their start and their completion
\* on the context object c.
RunningOn(c, r) ==
    {q \in Runners \ {r} :
        runs[q].context = c /\ runs[q].pc \in {"prep", "turn", "synthesize"}}

Write(r, c, status, phase) ==
    [run |-> r, context |-> c, status |-> status, current_phase |-> phase,
     during |-> RunningOn(c, r)]

\* Run r goes on to the suspension s with the discussion log dlog, the
\* decisions ds and the action items as; writes are the <<status, phase>>
\* pairs it sets on its context on the way, in order.
Proceed(r, c, s, writes, dlog, ds, as) ==
    LET obj == contexts[c]
        last == writes[Len(writes)]
    IN  /\ runs' = [runs EXCEPT ![r] =
                       [pc |-> s.pc, meeting_id |-> obj.meeting_id, context |-> c,
                        round |-> s.round, idx |-> s.idx, discussion_log |-> dlog,
                        result |-> IF s.pc = "returned" THEN "completed" ELSE "none"]]
        /\ contexts' = IF writes = <<>> THEN contexts
                       ELSE [contexts EXCEPT ![c].status = last[1],
                                             ![c].current_phase = last[2]]
        /\ write_log' = write_log
                        \cup {Write(r, c, writes[k][1], writes[k][2]) : k \in 1..Len(writes)}
        /\ prompt_log' = IF s.pc \in {"prep", "synthesize"}
                         THEN prompt_log
                              \cup {[run |-> r, context |-> c, kind |-> s.pc,
                                     agenda |-> lists[obj.agenda]]}
                         ELSE prompt_log
        /\ IF s.pc = "returned"
           THEN /\ store' = SaveActionItems(
                               SaveDecisions(UpdateLog(store, obj.meeting_id, dlog, ds, as),
                                             ds, obj.meeting_id),
                               as, obj.meeting_id)
                /\ saves' = saves
                            \o (IF <<"meeting", obj.meeting_id>> \in DOMAIN store
                                THEN <<(<<"meeting", obj.meeting_id>>)>> ELSE <<>>)
                            \o Keys("decision", ds) \o Keys("action_item", as)
           ELSE UNCHANGED <<store, saves>>
        /\ uuid_count' = uuid_count + Len(ds) + Len(as)
        /\ UNCHANGED <<regVars, settings, finished, callVars, prepVars, active_meetings, run_pc,
                       run_id, run_result, phase_trace, syncVars, lists, create_log>>

\* The writes of run_meeting between two suspensions: line 93 when the
\* preparation phase has just returned, lines 99-100 when the decision phase
\* has.
WritesTo(status, from, s) ==
    (IF from = "prep" /\ s.pc # "prep" THEN <<(<<status, SYNC_DECISION>>)>> ELSE <<>>)
    \o (IF s.pc = "returned" THEN <<(<<COMPLETED, COMPLETED>>)>> ELSE <<>>)

\* run_meeting called by runner r, up to its first await or its return.
run_meeting_call(r, meeting_id) ==
    /\ runs[r].pc = "idle"
    /\ IF meeting_id \notin DOMAIN active_meetings
       THEN /\ runs' = [runs EXCEPT ![r] =
                           [IdleRun EXCEPT !.pc = "returned", !.meeting_id = meeting_id,
                                           !.result = "not_found"]]
            /\ UNCHANGED <<regVars, settings, rerunVars, callVars, prepVars, meetVars, lists,
                           contexts, create_log, prompt_log, write_log>>
       ELSE LET c == active_meetings[meeting_id]
                s == AfterPrep(contexts[c].participants, 0)
            IN  Proceed(r, c, s,
                        <<(<<IN_PROGRESS, ASYNC_PREP>>)>> \o WritesTo(IN_PROGRESS, "prep", s),
                        <<>>, <<>>, <<>>)

\* A think() call of the preparation phase of run r returns or raises: both
\* leave an entry in prep_results and the loop goes on.
CallerPrepDone(r) ==
    /\ runs[r].pc = "prep"
    /\ LET c == runs[r].context
           s == AfterPrep(contexts[c].participants, runs[r].idx)
       IN  Proceed(r, c, s, WritesTo(contexts[c].status, "prep", s), <<>>, <<>>, <<>>)

\* The think() call of a turn of run r returns: the thought is logged.
CallerTurnReturns(r) ==
    /\ runs[r].pc = "turn"
    /\ LET c == runs[r].context
           ps == contexts[c].participants
           s == AfterTurns(ps, runs[r].round, runs[r].idx)
       IN  Proceed(r, c, s, WritesTo(contexts[c].status, "turn", s),
                   Append(runs[r].discussion_log,
                          AgentThought(ps[runs[r].idx],
                                       TurnText(ps[runs[r].idx].id, runs[r].round))),
                   <<>>, <<>>)

\* The think() call of a turn of run r raises: the except branch.
CallerTurnRaises(r) ==
    /\ runs[r].pc = "turn"
    /\ LET c == runs[r].context
           s == AfterTurns(contexts[c].participants, runs[r].round, runs[r].idx)
       IN  Proceed(r, c, s, WritesTo(contexts[c].status, "turn", s),
                   runs[r].discussion_log, <<>>, <<>>)

\* The facilitator's think() call of run r returns: the text is parsed, the
\* phase returns and run_meeting runs to its end.
CallerSynthesisReturns(r, text) ==
    /\ runs[r].pc = "synthesize"
    /\ LET c == runs[r].context
           s == [pc |-> "returned", round |-> Rounds, idx |-> 0]
       IN  Proceed(r, c, s, WritesTo(contexts[c].status, "synthesize", s),
                   runs[r].discussion_log,
                   Drawn(_extract_decisions_and_actions(text), uuid_count).decisions,
                   Drawn(_extract_decisions_and_actions(text), uuid_count).action_items)

\* The facilitator's think() call of run r raises, and so does run_meeting.
CallerSynthesisRaises(r) ==
    /\ runs[r].pc = "synthesize"
    /\ runs' = [runs EXCEPT ![r].pc = "raised", ![r].result = "raised"]
    /\ UNCHANGED <<regVars, settings, rerunVars, callVars, prepVars, meetVars, lists, contexts,
                   create_log, prompt_log, write_log>>

InitCallers ==
    /\ providers = _create_default_config
    /\ saved = providers
    /\ result = None
    /\ settings = DefaultSettings
    /\ CallIdle
    /\ PrepIdle
    /\ MeetIdle
    /\ RerunIdle
    /\ lists = [l \in ListRefs |-> <<"Q3 priorities">>]
    /\ contexts = <<>>
    /\ runs = [r \in Runners |-> IdleRun]
    /\ create_log = <<>>
    /\ prompt_log = {}
    /\ write_log = {}

CallerCreates ==
    \E m \in Uuid8, t \in Titles, l \in ListRefs, ps \in CallerParticipantLists :
        create_meeting_call(m, t, l, ps)

CallerMutatesAgenda == \E l \in ListRefs, item \in AgendaItems : AgendaAppend(l, item)

CallerRuns == \E r \in Runners, m \in Uuid8 : run_meeting_call(r, m)

CallerPrepEnds == \E r \in Runners : CallerPrepDone(r)

CallerTurnSucceeds == \E r \in Runners : CallerTurnReturns(r)

CallerTurnFails == \E r \in Runners : CallerTurnRaises(r)

CallerSynthesisSucceeds ==
    \E r \in Runners, text \in CallerSynthesisTexts : CallerSynthesisReturns(r, text)

CallerSynthesisFails == \E r \in Runners : CallerSynthesisRaises(r)

NextCallers ==
    \/ CallerCreates
    \/ CallerMutatesAgenda
    \/ CallerRuns
    \/ CallerPrepEnds
    \/ CallerTurnSucceeds
    \/ CallerTurnFails
    \/ CallerSynthesisSucceeds
    \/ CallerSynthesisFails

SpecCallers == InitCallers /\ [][NextCallers]_vars

\* =============================================================== claims

\* Indices of the log's attempts on the i-th candidate, and its events.
AttemptIdx(i) ==
    {j \in 1..Len(log) : log[j].ev = "attempt" /\ log[j].id = candidates[i].id}

AlwaysFails(i) == \A j \in AttemptIdx(i) : ~log[j].ok

AlwaysSucceeds(i) == \A j \in AttemptIdx(i) : log[j].ok

Segment(i) ==
    LET Mine(e) == e.id = candidates[i].id IN SelectSeq(log, Mine)

\* The first successful attempt is the last event of the call, and the call
\* has returned the response of the provider of that attempt.
ShortCircuit ==
    \A j \in 1..Len(log) :
        (log[j].ev = "attempt" /\ log[j].ok) =>
            /\ j = Len(log)
            /\ pc = "done"
            /\ outcome.kind = "return"
            /\ outcome.value.by = log[j].id

\* Two enabled providers, the first always failing, the second always
\* succeeding, a finished call without specific_provider.
FailingThenHealthy ==
    /\ op = "complete"
    /\ specific = None
    /\ settings.max_retries >= 1
    /\ pc = "done"
    /\ Len(candidates) >= 2
    /\ AlwaysFails(1)
    /\ AlwaysSucceeds(2)

SecondReturned ==
    /\ outcome.kind = "return"
    /\ outcome.value.by = candidates[2].id

\* C1 as stated: the first success ends complete with that attempt's response,
\* and with two enabled providers of which the first always fails and the
\* second always succeeds the second's result is returned.
C1_AsStated ==
    op = "complete" =>
        /\ ShortCircuit
        /\ FailingThenHealthy => SecondReturned

\* C1 amended: the first success ends complete with that attempt's response
\* (no later attempt on that provider, none on a later candidate); with
\* auto_switch on, two enabled providers of which the first always fails and
\* the second always succeeds, the second's result is returned.
C1_ShortCircuit ==
    op = "complete" =>
        /\ ShortCircuit
        /\ (FailingThenHealthy /\ settings.auto_switch) => SecondReturned

C1_Witness ==
    /\ FailingThenHealthy
    /\ settings.auto_switch
    /\ settings.max_retries = 2
    /\ Len(log) = 4
    /\ SecondReturned

\* The events of a provider each of whose max_retries attempts fails:
\* attempt k at position 2k-1, the wait retry_delay * 2^(k-1) after it at 2k.
ExpectedBackoff(provider_id) ==
    [k \in 1..(2 * settings.max_retries - 1) |->
        IF k % 2 = 1
        THEN Event("attempt", provider_id, (k - 1) \div 2, FALSE)
        ELSE Event("wait", provider_id, settings.retry_delay * 2^((k \div 2) - 1), FALSE)]

Exhausted(i) == i < pidx \/ (i = pidx /\ pc = "done" /\ outcome.kind # "return")

\* C2: a provider whose every attempt fails gets exactly max_retries attempts,
\* the wait retry_delay * 2^(k-1) between attempt k and k+1, none after the last.
C2_Backoff ==
    op = "complete" =>
        \A i \in 1..Len(candidates) :
            (i <= pidx /\ Exhausted(i)) => Segment(i) = ExpectedBackoff(candidates[i].id)

C2_Witness ==
    /\ op = "complete"
    /\ pc = "done"
    /\ settings.max_retries = 3
    /\ settings.retry_delay = 1
    /\ Len(candidates) = 1
    /\ log = <<Event("attempt", candidates[1].id, 0, FALSE),
               Event("wait", candidates[1].id, 1, FALSE),
               Event("attempt", candidates[1].id, 1, FALSE),
               Event("wait", candidates[1].id, 2, FALSE),
               Event("attempt", candidates[1].id, 2, FALSE)>>

\* A call without specific_provider, auto_switch off, two or more enabled.
Pinned ==
    /\ op = "complete"
    /\ specific = None
    /\ ~settings.auto_switch
    /\ settings.max_retries >= 1
    /\ Len(candidates) >= 2

\* C3: with auto_switch off and two or more enabled providers, only the first
\* (lowest priority number) is ever attempted, and when it always fails the
\* call raises MultiClientError with the first provider's error alone.
C3_NoFailover ==
    Pinned =>
        /\ candidates[1].enabled
        /\ \A j \in 1..Len(providers) :
              providers[j].enabled => candidates[1].priority <= providers[j].priority
        /\ pidx = 1
        /\ \A j \in 1..Len(log) : log[j].id = candidates[1].id
        /\ (pc = "done" /\ AlwaysFails(1)) =>
              outcome = MultiClientError(
                  candidates[1].name :>
                      ErrorText(candidates[1].id, settings.max_retries - 1))

C3_Witness ==
    /\ Pinned
    /\ pc = "done"
    /\ AlwaysFails(1)
    /\ Len(log) >= 3
    /\ candidates[1].name # candidates[2].name
    /\ DOMAIN outcome.errors = {candidates[1].name}

\* The candidate list of the call is empty: an unknown specific_provider, or
\* none given and no provider enabled.
NoCandidates ==
    \/ specific # None /\ ~HasId(providers, specific)
    \/ specific = None /\ \A j \in 1..Len(providers) : ~providers[j].enabled

\* C4: complete on an empty candidate list raises "No providers available" at
\* once, with no attempt and no wait.
C4_NoProviders ==
    (op = "complete" /\ NoCandidates) =>
        /\ pc = "done"
        /\ outcome = NoProvidersAvailable
        /\ log = <<>>

C4_Witness ==
    /\ op = "complete"
    /\ specific # None
    /\ ~HasId(providers, specific)
    /\ \E j \in 1..Len(providers) : providers[j].enabled
    /\ outcome = NoProvidersAvailable

\* The message of the i-th candidate's last failed attempt.
LastError(i) ==
    LET last == CHOOSE j \in AttemptIdx(i) : \A k \in AttemptIdx(i) : k <= j
    IN  ErrorText(candidates[i].id, log[last].n)

AllFailed ==
    /\ op = "complete"
    /\ pc = "done"
    /\ settings.auto_switch
    /\ outcome.kind = "MultiClientError"
    /\ candidates # <<>>

\* C5: when complete fails with every candidate exhausted (auto_switch on),
\* the error's mapping sends the name of every attempted candidate to the
\* message of that candidate's last failed attempt.
C5_ErrorsPerProvider ==
    AllFailed =>
        \A i \in 1..Len(candidates) :
            AttemptIdx(i) # {} =>
                /\ candidates[i].name \in DOMAIN outcome.errors
                /\ outcome.errors[candidates[i].name] = LastError(i)

\* C6: get_enabled_providers returns exactly the enabled providers, each once,
\* by ascending priority, equal priorities in insertion order.
C6_EnabledSorted ==
    LET r == get_enabled_providers(providers)
        Pos(x) == CHOOSE j \in 1..Len(providers) : providers[j] = x
    IN  /\ \A k \in 1..Len(r) :
              \E j \in 1..Len(providers) : providers[j] = r[k] /\ providers[j].enabled
        /\ \A j \in 1..Len(providers) :
              providers[j].enabled =>
                  Cardinality({k \in 1..Len(r) : r[k] = providers[j]}) = 1
        /\ \A k, l \in 1..Len(r) :
              k < l =>
                  /\ r[k].priority <= r[l].priority
                  /\ r[k].priority = r[l].priority => Pos(r[k]) < Pos(r[l])

C6_Witness ==
    /\ Len(providers) = 3
    /\ \A j \in 1..3 : providers[j].enabled
    /\ providers[1].priority = 3
    /\ providers[2].priority = 1
    /\ providers[3].priority = 3
    /\ get_enabled_providers(providers) = <<providers[2], providers[1], providers[3]>>

\* C7: a provider that is disabled is not in get_enabled_providers, and a
\* complete call without specific_provider makes no attempt on it.
C7_DisabledExcluded ==
    /\ \A j \in 1..Len(providers) :
          ~providers[j].enabled =>
              \A k \in 1..Len(get_enabled_providers(providers)) :
                  get_enabled_providers(providers)[k].id # providers[j].id
    /\ (op = "complete" /\ specific = None) =>
          /\ \A k \in 1..Len(log) : get_provider(providers, log[k].id).enabled
          /\ pc \in {"try", "sleep"} => get_provider(providers, candidates[pidx].id).enabled

C7_Witness ==
    /\ op = "complete"
    /\ specific = None
    /\ pc = "done"
    /\ result = True
    /\ Len(providers) = 2
    /\ ~providers[1].enabled
    /\ providers[2].enabled
    /\ providers[1].priority < providers[2].priority
    /\ Len(log) >= 1

\* Positions of the log at which a candidate's stream was opened.
Opens == {j \in 1..Len(log) : log[j].ev = "open"}

OpenOf(k) == CHOOSE j \in Opens : Cardinality({o \in Opens : o <= j}) = k

\* Number of chunks the k-th candidate delivered.
ChunksFrom(k) ==
    (IF k < Cardinality(Opens) THEN OpenOf(k + 1) - 1 ELSE Len(log)) - OpenOf(k)

C9_TestProvider ==
    op = "test" =>
        /\ pc = "done" => outcome.kind = "return"
        /\ IF ~HasId(providers, specific) \/ ~get_provider(providers, specific).enabled
           THEN /\ pc = "done"
                /\ log = <<>>
                /\ ~outcome.value.success
           ELSE /\ Len(log) <= 1
                /\ pc = "done" =>
                      /\ Len(log) = 1
                      /\ log[1].ev = "attempt"
                      /\ log[1].id = specific
                      /\ outcome.value.success = log[1].ok

C9_Witness ==
    /\ op = "test"
    /\ pc = "done"
    /\ Len(providers) = 2
    /\ Len(log) = 1
    /\ log[1].ok
    /\ outcome = Returned([success |-> TRUE, message |-> "responded (unexpected content)"])

\* The participants that pass hasattr(participant, "think"), in list order.
Thinkers ==
    LET HasThink(x) == x.has_think IN SelectSeq(participants, HasThink)

\* C10: a failing think() never aborts AsyncPrep: every participant with an
\* inference capability is invoked, in list order, and has its own result;
\* the result of a failed call holds the error and no preparation, that of a
\* successful call the preparation and no error.
C10_PrepIsolation ==
    /\ Len(prep_log) <= Len(Thinkers)
    /\ prep_pc = "done" => Len(prep_log) = Len(Thinkers)
    /\ \A k \in 1..Len(prep_log) :
          /\ prep_log[k].id = Thinkers[k].id
          /\ prep_log[k].id \in DOMAIN prep_results
          /\ LET r == prep_results[prep_log[k].id]
             IN  /\ r.agent_id = Thinkers[k].id
                 /\ r.agent_role = Thinkers[k].role
                 /\ r.agent_name = Thinkers[k].name
                 /\ IF prep_log[k].ok
                    THEN /\ DOMAIN r = {"agent_id", "agent_role", "agent_name", "preparation"}
                         /\ r.preparation = prep_log[k].text
                    ELSE /\ DOMAIN r = {"agent_id", "agent_role", "agent_name", "error"}
                         /\ r.error = prep_log[k].text

C10_Witness ==
    /\ prep_pc = "done"
    /\ Len(participants) = 3
    /\ Len(prep_log) = 3
    /\ prep_log[1].ok
    /\ ~prep_log[2].ok
    /\ prep_log[3].ok
    /\ "preparation" \in DOMAIN prep_results[participants[1].id]
    /\ "error" \in DOMAIN prep_results[participants[2].id]
    /\ "preparation" \in DOMAIN prep_results[participants[3].id]

\* ------------------------------------------------------------- meetings

RunOver == run_pc \in {"returned", "raised"}
KnownRun == run_id \in DOMAIN active_meetings
ContextOfRun == active_meetings[run_id]
IsPrefix(a, b) == Len(a) <= Len(b) /\ SubSeq(b, 1, Len(a)) = a
NameOf(a) == participants[CHOOSE i \in 1..Len(participants) : participants[i].id = a].name
IsTurn(e) == e.kind = "turn"
IsGoodTurn(e) == e.kind = "turn" /\ e.ok
IsSynthesis(e) == e.kind = "synthesize"
IsSaid(c) == c.kind = "said"
FullTrace == <<(<<IN_PROGRESS, ASYNC_PREP>>), (<<IN_PROGRESS, SYNC_DECISION>>),
               (<<COMPLETED, COMPLETED>>)>>

\* C11: a run_meeting call on a known id that has ended has returned a
\* result and left the meeting in status Completed, whatever inference calls
\* failed; when the synthesis call failed the result has no decision and no
\* action item.
C11_AlwaysCompletes ==
    (RunOver /\ KnownRun) =>
        /\ run_pc = "returned"
        /\ ContextOfRun.status = COMPLETED
        /\ run_result.status = "completed"
        /\ (\E k \in 1..Len(turn_log) : IsSynthesis(turn_log[k]) /\ ~turn_log[k].ok)
              => run_result.decisions = <<>> /\ run_result.action_items = <<>>

\* The responses of the successful turns before the k-th think() call of the
\* decision phase, as the context phrases them.
SaidBefore(k) ==
    LET prior == SelectSeq(SubSeq(turn_log, 1, k - 1), IsGoodTurn)
    IN  [i \in 1..Len(prior) |-> ContextEntry("said", NameOf(prior[i].id), prior[i].text)]

\* C12: the context in the prompt of every think() call of the decision
\* phase holds the responses of exactly the turns that succeeded before it,
\* in speaking order, and each prompt's context extends the one before it.
C12_PromptCarriesHistory ==
    /\ \A k \in 1..Len(turn_log) :
          /\ SelectSeq(turn_log[k].context, IsSaid) = SaidBefore(k)
          /\ k > 1 => IsPrefix(turn_log[k - 1].context, turn_log[k].context)
    /\ turn_log # <<>> => IsPrefix(turn_log[Len(turn_log)].context, discussion_context)

\* Round 2 turn 1 has been prompted after a first round of at least two
\* speakers who all succeeded.
C12_Witness ==
    \E k \in 1..Len(turn_log) :
        /\ IsTurn(turn_log[k]) /\ turn_log[k].round = 1
        /\ k >= 3
        /\ \A j \in 1..(k - 1) : turn_log[j].ok /\ turn_log[j].round = 0

\* The participants with a think attribute, in list order.
Speakers == SelectSeq(participants, LAMBDA p : p.has_think)

\* The turns of two rounds over the speakers: <<round, id>>.
Schedule ==
    [i \in 1..(2 * Len(Speakers)) |->
        IF i <= Len(Speakers) THEN <<0, Speakers[i].id>>
        ELSE <<1, Speakers[i - Len(Speakers)].id>>]

TurnsTaken ==
    LET turns == SelectSeq(turn_log, IsTurn)
    IN  [i \in 1..Len(turns) |-> <<turns[i].round, turns[i].id>>]

GoodTurns == SelectSeq(turn_log, IsGoodTurn)

RoundsOver == run_pc \in {"synthesize", "returned", "raised"} /\ KnownRun

C14_PhaseOrder ==
    /\ IsPrefix(phase_trace, FullTrace)
    /\ (KnownRun /\ run_pc # "idle") =>
          /\ phase_trace # <<>>
          /\ <<ContextOfRun.status, ContextOfRun.current_phase>>
                = phase_trace[Len(phase_trace)]
          /\ Len(phase_trace) >= 2 => prep_pc = "done"
    /\ (KnownRun /\ RunOver) => phase_trace = FullTrace

\* What the call on an unknown id must leave alone.
UntouchedByNotFound ==
    <<active_meetings, store, saves, participants, prep_idx, prep_pc, prep_results,
      thoughts, prep_log, phase_trace, round_num, turn_idx, discussion_context,
      discussion_log, decisions, action_items, synthesis, turn_log>>

\* C15: run_meeting on an id that is not in active_meetings ends at once
\* with the not-found error as its result; it makes no think() call, saves
\* nothing and leaves every meeting context as it was.
C15_NotFound ==
    [][(run_pc = "idle" /\ run_pc' # "idle" /\ run_id' \notin DOMAIN active_meetings)
          => /\ run_pc' = "returned"
             /\ "error" \in DOMAIN run_result'
             /\ UNCHANGED UntouchedByNotFound]_vars

\* The call on an unknown id has ended while a meeting exists.
C15_Witness ==
    /\ RunOver
    /\ ~KnownRun
    /\ active_meetings # <<>>

\* The facilitator as the claim words it: index of the first CEO, else of the
\* first participant, else 0.
ExpectedFacilitator ==
    LET ceos == {i \in 1..Len(participants) : participants[i].role = "CEO"}
    IN  IF ceos # {} THEN CHOOSE i \in ceos : \A j \in ceos : i <= j
        ELSE IF Len(participants) > 0 THEN 1 ELSE 0

SynthesisCalled ==
    \/ run_pc = "synthesize"
    \/ \E k \in 1..Len(turn_log) : IsSynthesis(turn_log[k])

\* C16: once the rounds are over, a synthesis call is made exactly when the
\* facilitator (first CEO, else first participant) exists and has a think
\* attribute, and it is made on that participant; without the call the
\* decisions and the action items stay empty.
C16_Facilitator ==
    RoundsOver =>
        /\ SynthesisCalled <=>
              /\ ExpectedFacilitator # 0
              /\ participants[ExpectedFacilitator].has_think
        /\ SynthesisCalled => turn_idx = ExpectedFacilitator
        /\ \A k \in 1..Len(turn_log) :
              IsSynthesis(turn_log[k]) =>
                  turn_log[k].id = participants[ExpectedFacilitator].id
        /\ ~SynthesisCalled => decisions = <<>> /\ action_items = <<>>

\* The synthesis was asked of a CEO who is not the first participant, with a
\* second CEO after it.
C16_Witness ==
    /\ Len(participants) = 3
    /\ participants[1].role # "CEO"
    /\ participants[2].role = "CEO"
    /\ participants[3].role = "CEO"
    /\ \E k \in 1..Len(turn_log) : IsSynthesis(turn_log[k]) /\ turn_log[k].id = "a2"

\* --------------------------------------------------------------- parser

Extracted == run_pc = "extracted"

\* The lines of the text, trimmed.
SourceLines ==
    LET lines == Split(synthesis, <<NL>>)
    IN  [i \in 1..Len(lines) |-> Strip(lines[i])]

StartsDecision(l) ==
    StartsWith(l, DECISION_PREFIX) \/ StartsWith(l, NUMBERED_DECISION_PREFIX)

StartsAction(l) ==
    StartsWith(l, ACTION_PREFIX) \/ StartsWith(l, NUMBERED_ACTION_PREFIX)

PrefixOf(l) ==
    IF StartsWith(l, DECISION_PREFIX) THEN DECISION_PREFIX
    ELSE IF StartsWith(l, NUMBERED_DECISION_PREFIX) THEN NUMBERED_DECISION_PREFIX
    ELSE IF StartsWith(l, ACTION_PREFIX) THEN ACTION_PREFIX
    ELSE NUMBERED_ACTION_PREFIX

\* The trimmed text after the prefix of a matching line.
Remainder(l) == Strip(SubSeq(l, Len(PrefixOf(l)) + 1, Len(l)))

Before(t, sep) == SubSeq(t, 1, Find(t, sep) - 1)
After(t, sep) == SubSeq(t, Find(t, sep) + Len(sep), Len(t))

DecisionLines == SelectSeq(SourceLines, StartsDecision)
ActionLines == SelectSeq(SourceLines, StartsAction)

\* C17: the decisions are, one for one and in order, the lines that after
\* trimming start with "DECISION:" or "2. DECISION:"; each has status
\* proposed and as description the trimmed text after the prefix; no other
\* line yields a decision.
C17_Decisions ==
    Extracted =>
        /\ Len(decisions) = Len(DecisionLines)
        /\ \A i \in 1..Len(decisions) :
              /\ decisions[i].description = Remainder(DecisionLines[i])
              /\ decisions[i].status = "proposed"

\* "DECISION: Ship v2" among lines that yield nothing.
C17_Witness ==
    /\ Extracted
    /\ Len(SourceLines) = 2
    /\ Len(decisions) = 1
    /\ decisions[1].description = <<"Ship">>
    /\ \E i \in 1..2 : StartsWith(SourceLines[i], <<"Re", SP>> \o DECISION_PREFIX)

\* C18: for an action line whose remainder contains "| OWNER:", the
\* description is the trimmed text before the delimiter and the text after
\* it is the owner; when that text contains "| DEADLINE:" the owner is the
\* trimmed part before it and the deadline the trimmed part after it,
\* otherwise the deadline is "TBD".
C18_OwnerDeadline ==
    Extracted =>
        /\ Len(action_items) = Len(ActionLines)
        /\ \A i \in 1..Len(action_items) :
              LET rem == Remainder(ActionLines[i])
                  after == After(rem, OWNER_DELIMITER)
              IN  Contains(rem, OWNER_DELIMITER) =>
                    /\ action_items[i].description = Strip(Before(rem, OWNER_DELIMITER))
                    /\ IF Contains(after, DEADLINE_DELIMITER)
                       THEN /\ action_items[i].owner = Strip(Before(after, DEADLINE_DELIMITER))
                            /\ action_items[i].deadline = Strip(After(after, DEADLINE_DELIMITER))
                       ELSE /\ action_items[i].owner = Strip(after)
                            /\ action_items[i].deadline = <<"TBD">>

\* C19: for an action line whose remainder has no "| OWNER:", the whole
\* trimmed remainder is the description, "| DEADLINE:" included, and owner
\* and deadline are "TBD"; every action item has status todo, and deadline
\* "TBD" when its line has no "| DEADLINE:".
C19_Defaults ==
    Extracted =>
        /\ Len(action_items) = Len(ActionLines)
        /\ \A i \in 1..Len(action_items) :
              LET rem == Remainder(ActionLines[i])
              IN  /\ action_items[i].status = "todo"
                  /\ ~Contains(rem, OWNER_DELIMITER) =>
                        /\ action_items[i].description = rem
                        /\ action_items[i].owner = <<"TBD">>
                        /\ action_items[i].deadline = <<"TBD">>
                  /\ ~Contains(rem, DEADLINE_DELIMITER) => action_items[i].deadline = <<"TBD">>

\* An action line with "| DEADLINE:" and no "| OWNER:".
C19_Witness ==
    /\ Extracted
    /\ Len(action_items) = 1
    /\ Contains(action_items[1].description, DEADLINE_DELIMITER)
    /\ action_items[1].owner = <<"TBD">>

\* The description the i-th action line gives.
DescriptionOf(l) ==
    IF Contains(Remainder(l), OWNER_DELIMITER)
    THEN Strip(Before(Remainder(l), OWNER_DELIMITER))
    ELSE Remainder(l)

\* C20: the call never raises; each list follows the order of its source
\* lines and has as many items as there are lines with its prefixes, every
\* other line adding nothing; a text without such a line gives two empty
\* lists.
C20_TotalOrdered ==
    /\ run_pc # "raised"
    /\ Extracted =>
          /\ Len(decisions) = Len(DecisionLines)
          /\ Len(action_items) = Len(ActionLines)
          /\ \A i \in 1..Len(decisions) :
                decisions[i].description = Remainder(DecisionLines[i])
          /\ \A i \in 1..Len(action_items) :
                action_items[i].description = DescriptionOf(ActionLines[i])
          /\ (\A i \in 1..Len(SourceLines) :
                ~StartsDecision(SourceLines[i]) /\ ~StartsAction(SourceLines[i]))
                => decisions = <<>> /\ action_items = <<>>

\* Two action lines with different descriptions.
C20_Witness ==
    /\ Extracted
    /\ Len(action_items) = 2
    /\ action_items[1].description # action_items[2].description

\* ------------------------------------------------------------- registry

UniqueIds(ps) == \A i, j \in 1..Len(ps) : ps[i].id = ps[j].id => i = j
EntriesOf(ps, provider_id) == {j \in 1..Len(ps) : ps[j].id = provider_id}
NewProviders == {ProviderConfig(i, DisplayName(i), pr, en) :
                    i \in ProviderIds, pr \in Priorities, en \in BOOLEAN}

\* C25: provider ids are unique in every registry reached from the default
\* configuration by add, remove, enable and disable; an add (the one
\* operation returning None) leaves exactly one entry of the added id, the
\* added descriptor, and keeps every entry of another id.
C25_UniqueIds ==
    /\ [](UniqueIds(providers))
    /\ [][result' = None =>
            LET added == providers'[Len(providers')]
            IN  /\ Cardinality(EntriesOf(providers', added.id)) = 1
                /\ Len(providers') =
                      Len(providers) + (IF HasId(providers, added.id) THEN 0 ELSE 1)
                /\ \A j \in 1..Len(providers) :
                      providers[j].id # added.id =>
                          \E k \in 1..Len(providers') : providers'[k] = providers[j]]_vars

\* p1 was added again, with another priority, while p2 was registered.
C25_Witness ==
    /\ result = None
    /\ Len(providers) = 2
    /\ providers[1].id = "p2"
    /\ providers[2].id = "p1"
    /\ providers[2].priority = 3

\* C26: on every reachable registry each mutation applied twice gives the
\* registry it gives applied once, with the same enabled providers, and
\* remove, enable and disable of an absent id change nothing.
C26_Idempotent ==
    /\ \A p \in NewProviders :
          /\ WithProvider(WithProvider(providers, p), p) = WithProvider(providers, p)
          /\ get_enabled_providers(WithProvider(WithProvider(providers, p), p))
                = get_enabled_providers(WithProvider(providers, p))
    /\ \A i \in ProviderIds :
          /\ WithoutId(WithoutId(providers, i), i) = WithoutId(providers, i)
          /\ \A flag \in BOOLEAN :
                /\ WithEnabled(WithEnabled(providers, i, flag), i, flag)
                      = WithEnabled(providers, i, flag)
                /\ get_enabled_providers(WithEnabled(WithEnabled(providers, i, flag), i, flag))
                      = get_enabled_providers(WithEnabled(providers, i, flag))
                /\ ~HasId(providers, i) => WithEnabled(providers, i, flag) = providers
          /\ ~HasId(providers, i) => WithoutId(providers, i) = providers

\* A mutation of an absent id has returned False on a registry holding an
\* enabled and a disabled provider.
C26_Witness ==
    /\ result = False
    /\ \E i, j \in 1..Len(providers) : providers[i].enabled /\ ~providers[j].enabled
    /\ \E i \in ProviderIds : ~HasId(providers, i)

\* C27: after every registry mutation the provider list in the file is the
\* provider list in memory.
C27_Persisted == saved = providers

\* A mutation has changed a registry of two providers.
C27_Witness ==
    /\ result = True
    /\ Len(providers) = 2
    /\ ~providers[1].enabled
    /\ saved = providers

\* --------------------------------------------------------------- stream

OpensOf(provider_id) == {j \in Opens : log[j].id = provider_id}

\* C28: a stream call opens each candidate at most once, and only chunks
\* follow an opening: no further attempt and no backoff wait, whatever
\* max_retries is; when a candidate's stream has completed the call has
\* ended and no candidate after that one was opened.
C28_StreamOnce ==
    op = "stream" =>
        /\ \A k \in 1..Len(candidates) : Cardinality(OpensOf(candidates[k].id)) <= 1
        /\ \A j \in 1..Len(log) : log[j].ev \in {"open", "chunk"}
        /\ attempt = 0
        /\ (pc = "done" /\ outcome.kind = "return") =>
              /\ Opens # {}
              /\ \A k \in 1..Len(candidates) :
                    OpensOf(candidates[k].id) # {} <=> k <= pidx
              /\ \A j \in 1..Len(log) :
                    log[j].id = candidates[pidx].id => j >= OpenOf(pidx)

\* With max_retries above one, the first candidate failed and was not opened
\* again, the second completed.
C28_Witness ==
    /\ op = "stream"
    /\ pc = "done"
    /\ outcome.kind = "return"
    /\ settings.max_retries > 1
    /\ Len(candidates) = 2
    /\ pidx = 2
    /\ Cardinality(Opens) = 2

\* ------------------------------------------------------- failed turns

IsBadTurn(e) == e.kind = "turn" /\ ~e.ok
IsErrorEntry(c) == c.kind = "error"

\* The placeholders of the turns that failed before the k-th think() call of
\* the decision phase.
ErrorsBefore(k) ==
    LET prior == SelectSeq(SubSeq(turn_log, 1, k - 1), IsBadTurn)
    IN  [i \in 1..Len(prior) |-> ContextEntry("error", NameOf(prior[i].id), prior[i].text)]

\* C29: the placeholder of a failed turn, with the speaker's name and the
\* message, is in the context of every later think() call of the decision
\* phase, the synthesis included, and of no earlier one; the turn adds
\* nothing to the discussion log; the turns after it are all taken.
C29_FailedTurn ==
    /\ \A k \in 1..Len(turn_log) :
          SelectSeq(turn_log[k].context, IsErrorEntry) = ErrorsBefore(k)
    /\ SelectSeq(discussion_context, IsErrorEntry) = ErrorsBefore(Len(turn_log) + 1)
    /\ \A i \in 1..Len(discussion_log) :
          \E k \in 1..Len(turn_log) :
              /\ IsGoodTurn(turn_log[k])
              /\ turn_log[k].id = discussion_log[i].agent_id
              /\ turn_log[k].text = discussion_log[i].content
    /\ Len(discussion_log) = Len(turn_log) - Len(SelectSeq(turn_log, IsBadTurn))
                             - Len(SelectSeq(turn_log, IsSynthesis))
    /\ RoundsOver =>
          Len(SelectSeq(turn_log, IsTurn)) = 2 * Len(Speakers)

\* The first turn of two speakers failed, the other three turns succeeded and
\* the synthesis was asked.
C29_Witness ==
    /\ Len(Speakers) = 2
    /\ Len(turn_log) = 5
    /\ IsBadTurn(turn_log[1])
    /\ \A k \in 2..4 : IsGoodTurn(turn_log[k])
    /\ IsSynthesis(turn_log[5])
    /\ Len(discussion_log) = 3

\* ---------------------------------------------------------- prep results

ThinkerIds == {participants[i].id : i \in {j \in 1..Len(participants) : participants[j].has_think}}

\* C30: when the preparation phase is over, prep_results has an entry for
\* exactly the participants with a think attribute, and every entry holds
\* either a preparation or an error, never both and never neither.
C30_PrepEntries ==
    /\ DOMAIN prep_results \subseteq ThinkerIds
    /\ prep_pc = "done" => DOMAIN prep_results = ThinkerIds
    /\ \A a \in DOMAIN prep_results :
          /\ prep_results[a].agent_id = a
          /\ ("preparation" \in DOMAIN prep_results[a]) # ("error" \in DOMAIN prep_results[a])

\* Three participants: one prepared, one failed, one without think.
C30_Witness ==
    /\ prep_pc = "done"
    /\ Len(participants) = 3
    /\ Cardinality(ThinkerIds) = 2
    /\ \E a \in ThinkerIds : "preparation" \in DOMAIN prep_results[a]
    /\ \E a \in ThinkerIds : "error" \in DOMAIN prep_results[a]

\* ---------------------------------------------------------- persistence

SavesOf(key) == Len(SelectSeq(saves, LAMBDA k : k = key))

\* C24: nothing of a meeting is saved before its decision phase has returned
\* to run_meeting, and the meeting log, each decision and each action item
\* are saved exactly once.
C24_SavedOnceAfterSynthesis ==
    /\ saves # <<>> => run_pc = "returned" /\ run_id \in DOMAIN active_meetings
    /\ \A i \in 1..Len(saves) : SavesOf(saves[i]) = 1

\* ------------------------------------------------------------- callers

\* C21: every create_meeting call returns a context that is scheduled and in
\* the preparation phase, under an id that no meeting of the table had when
\* it was called, so that the contexts created before stay in the table.
C21_FreshId ==
    /\ \A i \in 1..Len(create_log) :
          /\ create_log[i].status = SCHEDULED
          /\ create_log[i].current_phase = ASYNC_PREP
          /\ create_log[i].meeting_id \notin create_log[i].known
    /\ \A c \in 1..Len(contexts) :
          /\ contexts[c].meeting_id \in DOMAIN active_meetings
          /\ active_meetings[contexts[c].meeting_id] = c

\* C22: the agenda of a context stays the items the list had when the
\* meeting was created, whatever the caller does to its list afterwards, and
\* the preparation and synthesis prompts of its runs carry those items.
C22_AgendaCaptured ==
    /\ \A c \in 1..Len(contexts) : lists[contexts[c].agenda] = create_log[c].agenda
    /\ \A p \in prompt_log : p.agenda = create_log[p.context].agenda

\* C23: no run sets the status or the phase of a context while another run
\* on the same context is between its start and its completion.
C23_Serialized == \A w \in write_log : w.during = {}

\* ------------------------------------------------------ complete, bounds

AttemptsOf(l) == Len(SelectSeq(l, LAMBDA e : e.ev = "attempt"))
WaitsOf(l) == Len(SelectSeq(l, LAMBDA e : e.ev = "wait"))

C35_Bounded ==
    (op = "complete" /\ settings.max_retries >= 1) =>
        /\ AttemptsOf(log) <= Len(candidates) * settings.max_retries
        /\ WaitsOf(log) <= Len(candidates) * (settings.max_retries - 1)
        /\ \A i \in 1..(Len(log) - 1) :
              log[i].ev = "wait" => log[i + 1].ev = "attempt" /\ log[i + 1].id = log[i].id
        /\ pc = "sleep" => attempt + 1 < settings.max_retries

\* C35: a complete call whose attempts and sleeps all end comes to its end;
\* it makes at most |candidates| * max_retries attempts and at most
\* |candidates| * (max_retries - 1) sleeps, and every sleep is followed by
\* another attempt on the same provider, never by the next provider.
C35_Terminates ==
    /\ []C35_Bounded
    /\ (op = "complete") ~> (op = "complete" /\ pc = "done")

\* Two candidates, three attempts each, all failed: six attempts, four sleeps.
C35_Witness ==
    /\ op = "complete"
    /\ pc = "done"
    /\ Len(candidates) = 2
    /\ settings.max_retries = 3
    /\ AttemptsOf(log) = 6
    /\ WaitsOf(log) = 4

\* C36: with candidates and max_retries <= 0, complete makes no attempt and
\* raises MultiClientError with an empty errors dict, which is not the
\* no-providers error.
C36_NoAttempt ==
    (op = "complete" /\ candidates # <<>> /\ settings.max_retries <= 0) =>
        /\ pc = "done"
        /\ log = <<>>
        /\ outcome = [kind |-> "MultiClientError", errors |-> <<>>]
        /\ outcome # NoProvidersAvailable

C36_Witness ==
    /\ op = "complete"
    /\ pc = "done"
    /\ Len(candidates) = 2
    /\ settings.max_retries = 0
    /\ outcome.kind = "MultiClientError"

\* The provider the call names exists and is disabled.
NamesDisabled ==
    /\ specific # None
    /\ HasId(providers, specific)
    /\ ~get_provider(providers, specific).enabled

\* C37: complete on the id of an existing disabled provider attempts that
\* provider, at most max_retries times, and no other provider, with
\* auto_switch on or off; test_provider on that id returns its refusal
\* without an attempt.
C37_DisabledSpecific ==
    /\ (op = "complete" /\ NamesDisabled) =>
          /\ \A i \in 1..Len(log) : log[i].id = specific
          /\ AttemptsOf(log) <= settings.max_retries
          /\ (pc = "done" /\ settings.max_retries >= 1) =>
                /\ AttemptsOf(log) >= 1
                /\ outcome # NoProvidersAvailable
                /\ outcome.kind = "MultiClientError" =>
                      AttemptsOf(log) = settings.max_retries
    /\ (op = "test" /\ NamesDisabled) =>
          /\ pc = "done"
          /\ log = <<>>
          /\ ~outcome.value.success

\* With auto_switch on and an enabled provider in the registry, the disabled
\* provider named was tried twice and the call failed.
C37_Witness ==
    /\ op = "complete"
    /\ NamesDisabled
    /\ pc = "done"
    /\ settings.auto_switch
    /\ settings.max_retries = 2
    /\ AttemptsOf(log) = 2
    /\ outcome.kind = "MultiClientError"
    /\ \E j \in 1..Len(providers) : providers[j].enabled

\* ----------------------------------------------- complete, registry moves

CandidateIndex(provider_id) ==
    CHOOSE k \in 1..Len(candidates) : candidates[k].id = provider_id

AttemptsOn(provider_id) ==
    Len(SelectSeq(log, LAMBDA e : e.ev = "attempt" /\ e.id = provider_id))

C34_InOrder ==
    (op = "complete" /\ pc # "idle") =>
        /\ \A i \in 1..Len(log) : \E k \in 1..pidx : log[i].id = candidates[k].id
        /\ \A i, j \in 1..Len(log) :
              i < j => CandidateIndex(log[i].id) <= CandidateIndex(log[j].id)
        /\ (pc = "done" /\ outcome.kind = "MultiClientError" /\ settings.auto_switch) =>
              \A k \in 1..Len(candidates) :
                  AttemptsOn(candidates[k].id) = settings.max_retries

\* C34: the candidate list of a complete call is the one resolved in its
\* first step and no later step changes it, a registry mutation made while
\* the call is suspended included; the attempts go through that list in its
\* order, and a call that fails with auto_switch on has tried every
\* candidate max_retries times whatever the registry holds by then.
C34_CandidatesFixed ==
    /\ []C34_InOrder
    /\ [][/\ (pc = "idle" /\ pc' # "idle") =>
                candidates' = ResolveCandidates(specific')
          /\ pc # "idle" => candidates' = candidates]_vars

\* Both candidates were tried twice and failed, and the registry now holds
\* the second one disabled.
C34_Witness ==
    /\ op = "complete"
    /\ pc = "done"
    /\ outcome.kind = "MultiClientError"
    /\ settings.max_retries = 2
    /\ Len(candidates) = 2
    /\ candidates[2].enabled
    /\ AttemptsOn(candidates[2].id) = 2
    /\ HasId(providers, candidates[2].id)
    /\ ~get_provider(providers, candidates[2].id).enabled
    /\ result = True

\* ------------------------------------------------------ order of calls

Call(kind, round, id) == [kind |-> kind, round |-> round, id |-> id]

\* The think() calls run_meeting has made so far, the outstanding one last.
Issued ==
    [i \in 1..Len(prep_log) |-> Call("prep", 0, prep_log[i].id)]
    \o [i \in 1..Len(turn_log) |-> Call(turn_log[i].kind, turn_log[i].round, turn_log[i].id)]
    \o (IF run_pc = "prep" THEN <<Call("prep", 0, participants[prep_idx].id)>>
        ELSE IF run_pc = "turn" THEN <<Call("turn", round_num, participants[turn_idx].id)>>
        ELSE IF run_pc = "synthesize"
        THEN <<Call("synthesize", Rounds, participants[turn_idx].id)>>
        ELSE <<>>)

\* The preparation calls and the two rounds of turns over the speakers.
PlanOfRounds ==
    [i \in 1..(3 * Len(Speakers)) |->
        IF i <= Len(Speakers) THEN Call("prep", 0, Speakers[i].id)
        ELSE IF i <= 2 * Len(Speakers) THEN Call("turn", 0, Speakers[i - Len(Speakers)].id)
        ELSE Call("turn", 1, Speakers[i - 2 * Len(Speakers)].id)]

\* The facilitator: the first CEO, else the first participant.
Facilitator ==
    IF \E j \in 1..Len(participants) : participants[j].role = "CEO"
    THEN participants[CHOOSE j \in 1..Len(participants) :
                         /\ participants[j].role = "CEO"
                         /\ \A k \in 1..(j - 1) : participants[k].role # "CEO"]
    ELSE participants[1]

CallsOver == KnownRun /\ run_pc \in {"returned", "raised"}

\* C31 as stated: the calls are the n preparations, the 2n turns and then
\* one synthesis by the facilitator, 3n + 1 in all whenever n >= 1.
C31_AsStated ==
    (KnownRun /\ Len(Speakers) >= 1) =>
        /\ IsPrefix(Issued, PlanOfRounds \o <<Call("synthesize", Rounds, Facilitator.id)>>)
        /\ CallsOver => Len(Issued) = 3 * Len(Speakers) + 1

\* C31: run_meeting has one think() call outstanding at a time; its calls
\* are the n preparations in list order, the n turns of round 1, the n turns
\* of round 2 and then, only when the facilitator has a think attribute, one
\* synthesis call, the last: 3n + 1 calls with such a facilitator, 3n with a
\* facilitator that has none.
C31_Sequential ==
    /\ prep_pc = "think" => run_pc = "prep"
    /\ KnownRun =>
          LET plan == IF participants # <<>> /\ Facilitator.has_think
                      THEN PlanOfRounds \o <<Call("synthesize", Rounds, Facilitator.id)>>
                      ELSE PlanOfRounds
          IN  /\ IsPrefix(Issued, plan)
              /\ CallsOver => Issued = plan

\* A CEO without think facilitates two speakers: six calls and no synthesis.
C31_Witness ==
    /\ CallsOver
    /\ Len(participants) = 3
    /\ Len(Speakers) = 2
    /\ ~Facilitator.has_think
    /\ Len(Issued) = 6

\* C39: run_meeting on a meeting without participants makes no think() call
\* and returns status completed with empty prep results, an empty discussion
\* log, no decisions and no action items; the context ends completed in
\* phase completed.
C39_EmptyMeeting ==
    (KnownRun /\ participants = <<>>) =>
        /\ run_pc = "returned"
        /\ prep_log = <<>> /\ turn_log = <<>>
        /\ run_result.status = "completed"
        /\ run_result.prep_results = <<>>
        /\ run_result.discussion_log = <<>>
        /\ run_result.decisions = <<>>
        /\ run_result.action_items = <<>>
        /\ ContextOfRun.status = "completed"
        /\ ContextOfRun.current_phase = "completed"

C39_Witness ==
    /\ KnownRun
    /\ participants = <<>>
    /\ run_pc = "returned"
    /\ Len(saves) = 2

\* ------------------------------------------------------ a second run

IsCompleted(res) == "status" \in DOMAIN res /\ res.status = "completed"

\* The call before the present one, once ended.
Previous == finished[Len(finished)]

\* The present run_meeting call follows a completed one on the same id.
SecondRun ==
    /\ finished # <<>>
    /\ KnownRun
    /\ Previous.meeting_id = run_id
    /\ IsCompleted(Previous.result)

\* The think() calls of an ended call.
CallsOf(f) ==
    [i \in 1..Len(f.prep_log) |-> Call("prep", 0, f.prep_log[i].id)]
    \o [i \in 1..Len(f.turn_log) |->
           Call(f.turn_log[i].kind, f.turn_log[i].round, f.turn_log[i].id)]

\* The text of the synthesis the present call received, <<>> without one.
SynthesisReceived ==
    LET got == SelectSeq(turn_log, LAMBDA e : e.kind = "synthesize" /\ e.ok)
    IN  IF got = <<>> THEN <<>> ELSE got[1].text

IdsOfResult(res) == {res.decisions[i].id : i \in 1..Len(res.decisions)}
                    \cup {res.action_items[i].id : i \in 1..Len(res.action_items)}

CompletedResults(m) ==
    LET past == SelectSeq(finished,
                          LAMBDA f : f.meeting_id = m /\ IsCompleted(f.result))
    IN  [i \in 1..Len(past) |-> past[i].result]
        \o (IF run_id = m /\ run_pc = "returned" /\ IsCompleted(run_result)
            THEN <<run_result>> ELSE <<>>)

C33_NoPausedNoCancelled ==
    \A m \in DOMAIN active_meetings :
        active_meetings[m].status \in {SCHEDULED, IN_PROGRESS, COMPLETED}

\* A call that raised in the synthesis left the meeting in progress, and a
\* second call has completed it.
C33_Witness ==
    /\ finished # <<>>
    /\ Previous.result.kind = "raised"
    /\ KnownRun
    /\ run_pc = "returned"
    /\ ContextOfRun.status = COMPLETED

\* C38: between the steps of create_meeting and run_meeting calls, two
\* run_meeting calls on one id interleaved at their think() calls included,
\* a context has status completed exactly when its phase is completed, and
\* status scheduled only with phase async_prep.
C38_StatusMatchesPhase ==
    \A c \in 1..Len(contexts) :
        /\ (contexts[c].status = COMPLETED) <=> (contexts[c].current_phase = COMPLETED)
        /\ contexts[c].status = SCHEDULED => contexts[c].current_phase = ASYNC_PREP

====
